---- MODULE Spec2Model ----
(***************************************************************************)
(* State-machine model of the sharon-widget animation core                 *)
(* (src/src/main.js) and of the dialogue turn that drives it.              *)
(*                                                                         *)
(* Units.  Time is counted in centiseconds (1 cs = 10 ms): every duration  *)
(* in main.js is a whole number of centiseconds.  Other quantities are     *)
(* fixed-point integers:                                                   *)
(*   blinkProgress                 1 = 0.01                                *)
(*   expression weights            1 = 0.001                               *)
(*   breathPhase                   1 = 0.001 rad                           *)
(*   bodySwayPhase, headSwayPhase  1 = 0.0001 rad                          *)
(*   blendFactor                   1 = 1 / BlendDen                        *)
(*   yaw angles                    1 = 1 / YawDen of a full turn (2 pi)    *)
(* Values that main.js computes with Math.sin are kept symbolically: the   *)
(* rig records who wrote a bone and the arguments of the written value.    *)
(***************************************************************************)
EXTENDS Integers, FiniteSets, Sequences, TLC

\* ---------------------------------------------------------------- bounds
\* Horizon (cs of wall-clock time) of the interactive specification Spec.
MaxTime == 440
\* Horizon (cs) of the pointer specification SpecClick.
MaxClickTime == 440
\* Number of early animate() calls in a behaviour of SpecClick.
MaxClickShort == 0
\* Horizon (cs) and early animate() calls of the frame-loop specification
\* SpecLoop.
MaxLoopTime == 110
MaxLoopShort == 2
\* Horizon (cs) of the idle-only specification SpecIdle.
MaxGazeTime == 330
\* ... of the emotion specification and of the dialogue specification
MaxEmotionTime == 40
MaxChatTime == 280
\* Latest time of a pointer move and of a chat send
MaxMoveTime == 10
MaxSendTime == 20
\* Dialogue turns in a run of the emotion / of the dialogue specification
MaxEmotionTurns == 3
MaxTurns == 1
\* Pointer presses in a run of the dialogue specification
MaxChatPresses == 1
MaxIdleTime == 1100
\* ... of the overlay specification, and its number of early animate() calls
MaxOverlayTime == 700
MaxOverlayShort == 1
\* Latest wall-clock time (cs) at which the VRM load may complete.
MaxLoadTime == 0
\* Number of pointer presses explored in Spec.
MaxPresses == 2
\* Number of early animate() calls in a behaviour of Spec / of SpecIdle.
MaxShort == 1
MaxIdleShort == 2
\* Longest time (cs) a pointer press is held before its release.
MaxHold == 20
\* Latest wall-clock time (cs) of the first pointer press.
MaxFirstPress == 10

\* Tokens of a reply handed to parseEmotionTag
MaxReplyLen == 5

\* Sources playAudio creates in a run of the player specification
MaxSources == 4

\* Horizon (cs) of the interruption specification
MaxInterruptTime == 120

\* Horizon (cs) of the turn specification and its dialogue turns
MaxTurnTime == 30
MaxTurnSends == 2

\* Calls of handleSend made while a dialogue turn is in flight, per turn
MaxIgnored == 1

\* Horizon (cs) and early animate() calls of the smoothing specification
MaxLookTime == 100
MaxLookShort == 0

\* ------------------------------------------------------ program constants
\* main.js:106  idleDuration: 10 (seconds per idle animation)
IdleDuration == 1000
\* main.js:147-220  IDLE_ANIMATIONS.length
NumIdle == 5
\* main.js:224-317  CHAT_ANIMATIONS.length
NumChat == 5
\* main.js:819  Math.min(clock.getDelta(), 0.1)
MaxDelta == 10
\* main.js:901  dragDuration > 100 (ms)
DragThreshold == 10
\* main.js:637, 666, 687, 716  phase durations 1.5 s, 0.8 s, 0.6 s, 1.0 s
TwirlDuration == 150
SmileDuration == 80
WinkDuration == 60
ReturnDuration == 100
\* main.js:515  expressionWeight >= 0.4 switches fade-in to fade-out
ExpressionCeiling == 400
\* main.js:514  Math.min(1, ...)
ExpressionCap == 1000
\* denominators of the fixed-point fractions
BlendDen == 3375000
YawDen == 27000000

Min(a, b) == IF a < b THEN a ELSE b
Max(a, b) == IF a > b THEN a ELSE b
Cube(x) == x * x * x

\* main.js:81-86  ANIMATION_STATE
IDLE == "idle"
CHAT == "chat"
TWIRL == "twirl"

\* main.js:224-317  CHAT_ANIMATIONS[i].duration (3, 4, 2.5, 3.5, 3 s)
ChatDuration(i) ==
  CASE i = 0 -> 300
    [] i = 1 -> 400
    [] i = 2 -> 250
    [] i = 3 -> 350
    [] OTHER -> 300

\* ------------------------------------------------------------------ rigs
\* A loaded VRM is described by what it exposes: the humanoid bones
\* (vrm.humanoid?.getNormalizedBoneNode), the expressions of its
\* expressionManager (NoManager when it has none) and vrm.lookAt.
NoManager == {"<none>"}
NoVrm == [loaded |-> FALSE, bones |-> {}, exprs |-> NoManager, lookAt |-> FALSE]
FullRig == [loaded |-> TRUE, bones |-> {"hips", "head", "arms", "spine"},
            exprs |-> {"blink", "happy", "relaxed"}, lookAt |-> TRUE]
NoHipsRig == [loaded |-> TRUE, bones |-> {"head", "arms"},
              exprs |-> {"blink", "happy"}, lookAt |-> TRUE]
BareRig == [loaded |-> TRUE, bones |-> {}, exprs |-> NoManager, lookAt |-> FALSE]
BlinkOnlyRig == [loaded |-> TRUE, bones |-> {"head"}, exprs |-> {"blink"},
                 lookAt |-> FALSE]
EmotionRig == [loaded |-> TRUE, bones |-> {"hips", "head", "arms", "spine"},
               exprs |-> {"blink", "happy", "sad", "angry"}, lookAt |-> TRUE]
Rigs == {FullRig, NoHipsRig, BareRig}

HasBone(v, b) == b \in v.bones
HasManager(v) == v.exprs # NoManager


\* -------------------------------------------------------------- variables
VARIABLES
  now,             \* wall clock: Date.now() and the rAF timestamp (cs)
  lastFrameTime,   \* main.js:811
  clockOld,        \* THREE.Clock oldTime of main.js:43; -1 before the first getDelta
  vrm,             \* main.js:42  NoVrm or the loaded rig
  loader,          \* main.js:48-78  "pending" | "loaded" | "failed"
  animationState,  \* main.js:88-123
  isDragging,      \* main.js:875
  dragStartTime,   \* main.js:874
  mouse,           \* main.js:783  [x, y] in thousandths of the NDC range
  targetLook,      \* main.js:784  [x, y] in thousandths of a degree
  rig,             \* what has been written to the bones and expressions
  frame,           \* outcome of the latest animate() call
  isSending,       \* main.js:963
  presses,         \* number of pointer presses so far
  sends,           \* number of chat sends so far
  shorts,          \* number of animate() calls that came early (gap < MaxDelta)
  currentEmotionExpression,  \* main.js:937  "null" or an expression name
  targetEmotionWeight,       \* main.js:939  (1 = 0.001)
  turn,            \* the sendMessage call of main.js:994 and what it has done
  lipSyncActive,   \* lipsync.js: between startLipSync() and stopLipSync()
  reply,           \* chat.js:50  the raw reply handed to parseEmotionTag
  parsed,          \* chat.js:56  what parseEmotionTag returned for it
  _currentSource,  \* chat.js:162  0 (null) or the number of a source
  sources          \* the buffer sources playAudio has created, in order

vars == <<now, lastFrameTime, clockOld, vrm, loader, animationState, isDragging,
          dragStartTime, mouse, targetLook, rig, frame, isSending, presses, sends,
          shorts, currentEmotionExpression, targetEmotionWeight, turn,
          lipSyncActive, reply, parsed, _currentSource, sources>>

\* The variables of chat.js's reply parser and audio player
chatjs == <<reply, parsed, _currentSource, sources>>

\* The variables of the dialogue turn and of its two overlays
dialogue == <<isSending, sends, currentEmotionExpression, targetEmotionWeight,
              turn, lipSyncActive>>

ExprNames == {"blink", "happy", "relaxed", "sad", "angry"}

\* The value of an expression: who wrote it last and the written number
\* (for a Math.sin value: its argument).  A bone records the driver that
\* wrote it last; hips.spin is the spin angle the twirl wrote into the yaw
\* (0 for the other drivers, whose yaw is that of rig.pose); head.by is the
\* writer of the head's x and y rotation, head.zBy that of its z rotation,
\* and head.gazeX / head.gazeY are what updateLookAt has added to the x / y
\* rotation since that write (1 = 0.000001 rad).
Written(by, val) == [by |-> by, val |-> val]

\* The rig as loaded: nothing written yet.
FreshRig ==
  [hips  |-> [by |-> "none", spin |-> 0, posBy |-> "none"],
   spine |-> [by |-> "none"],
   head  |-> [by |-> "none", zBy |-> "none", gazeX |-> 0, gazeY |-> 0],
   arms  |-> [by |-> "none"],
   pose  |-> [idx |-> 0, phase |-> 0, blend |-> 0],
   expr  |-> [n \in ExprNames |-> Written("none", 0)]]

\* vrm.expressionManager.setValue(name, value): a name the rig does not
\* expose is ignored.
SetValue(r, v, name, by, val) ==
  IF HasManager(v) /\ name \in v.exprs
  THEN [r EXCEPT !.expr[name] = Written(by, val)]
  ELSE r

\* main.js:346-369  resetToDefaultPose
resetToDefaultPose(r, v) ==
  IF ~v.loaded THEN r
  ELSE [r EXCEPT
    !.hips  = IF HasBone(v, "hips")
              THEN [by |-> "reset", spin |-> 0, posBy |-> "reset"] ELSE @,
    !.spine = IF HasBone(v, "spine") THEN [by |-> "reset"] ELSE @,
    !.head  = IF HasBone(v, "head")
              THEN [by |-> "reset", zBy |-> "reset", gazeX |-> 0, gazeY |-> 0]
              ELSE @,
    !.arms  = IF HasBone(v, "arms") THEN [by |-> "reset"] ELSE @]

\* main.js:405-414  blendFactor as a function of cycleProgress =
\* idleTimer / idleDuration (timer in cs, so 0.15 is 150 and 0.85 is 850);
\* t * t * (3 - 2 * t) with t = u / 150 is u * u * (450 - 2 * u) / 150^3.
BlendFactor(timer) ==
  IF timer < 150
  THEN timer * timer * (450 - 2 * timer)
  ELSE IF timer > 850
       THEN BlendDen - (timer - 850) * (timer - 850) * (450 - 2 * (timer - 850))
       ELSE 0

\* main.js:436-446  the eyelid weight for a blink progress (both 1 = 0.01)
BlinkWeightHalfSlope(progress) ==
  IF progress < 50 THEN progress * 2
  ELSE IF progress < 100 THEN 100 - (progress - 50)
  ELSE 0

BlinkWeight(progress) ==
  IF progress < 50 THEN progress * 2
  ELSE IF progress < 100 THEN 100 - (progress - 50) * 2
  ELSE 0

\* main.js:524-526  the active expression is written with the current weight
SetValueOnly(w, v, cur) ==
  [w EXCEPT !.r = SetValue(w.r, v, cur, "ambient", w.s.expressionWeight)]

\* main.js:375-535  updateIdleAnimation(delta), in the order of the code.
\* Each step maps a frame record w = [s |-> animationState, r |-> rig,
\* cp |-> cycleProgress, threw |-> raised?] to the next one.  rnd holds the
\* values drawn from Math.random(): rnd.blink (nextBlinkTime), rnd.exprTime
\* (nextExpressionTime), rnd.exprPick (Math.floor(Math.random() * 2)).

\* main.js:382-395  idle animation cycling
IdleCyclingSkip(w, v, delta) ==
  LET timer1 == w.s.idleTimer + delta
  IN IF timer1 >= IdleDuration /\ w.s.state = IDLE /\ timer1 > 850
     THEN [w EXCEPT !.cp = timer1,
                    !.r = resetToDefaultPose(w.r, v),
                    !.s = [w.s EXCEPT !.idleTimer = 0,
                                      !.currentIdleIndex = (@ + 2) % NumIdle]]
     ELSE [w EXCEPT !.cp = timer1, !.s = [w.s EXCEPT !.idleTimer = timer1]]

IdleCycling(w, v, delta) ==
  LET timer1 == w.s.idleTimer + delta
  IN IF timer1 >= IdleDuration /\ w.s.state = IDLE /\ timer1 > 850
     THEN [w EXCEPT !.cp = timer1,
                    !.r = resetToDefaultPose(w.r, v),
                    !.s = [w.s EXCEPT !.idleTimer = 0,
                                      !.currentIdleIndex = (@ + 1) % NumIdle]]
     ELSE [w EXCEPT !.cp = timer1, !.s = [w.s EXCEPT !.idleTimer = timer1]]

\* The start of a blink that lets the blink timer run on
IdleBlinkStartKeepsTimer(w, delta, rnd) ==
  LET timer1 == w.s.blinkTimer + delta
  IN IF ~w.s.isBlinking /\ timer1 >= w.s.nextBlinkTime
     THEN [w EXCEPT !.s = [w.s EXCEPT !.breathPhase = @ + delta * 12,
                                      !.isBlinking = TRUE,
                                      !.blinkProgress = 0,
                                      !.nextBlinkTime = rnd.blink,
                                      !.blinkTimer = timer1]]
     ELSE [w EXCEPT !.s = [w.s EXCEPT !.breathPhase = @ + delta * 12,
                                      !.blinkTimer = timer1]]

\* main.js:424-434  breathing, and the start of a blink
IdleBlinkStart(w, delta, rnd) ==
  LET timer1 == w.s.blinkTimer + delta
  IN IF ~w.s.isBlinking /\ timer1 >= w.s.nextBlinkTime
     THEN [w EXCEPT !.s = [w.s EXCEPT !.breathPhase = @ + delta * 12,
                                      !.isBlinking = TRUE,
                                      !.blinkProgress = 0,
                                      !.nextBlinkTime = rnd.blink,
                                      !.blinkTimer = 0]]
     ELSE [w EXCEPT !.s = [w.s EXCEPT !.breathPhase = @ + delta * 12,
                                      !.blinkTimer = timer1]]

\* main.js:436-450  the blink in progress
IdleBlinkStep(w, v, delta) ==
  LET progress1 == w.s.blinkProgress + delta * 8
  IN IF w.s.isBlinking
     THEN [w EXCEPT !.s = [w.s EXCEPT !.blinkProgress = progress1,
                                      !.isBlinking = progress1 < 100],
                    !.r = SetValue(w.r, v, "blink", "blink", BlinkWeight(progress1))]
     ELSE w

\* main.js:398-421 and 453-496  the current pose, blended with the default
\* pose by blendFactor, is written to the bones
IdleApplyPose(w, v) ==
  [w EXCEPT !.r = [w.r EXCEPT
    !.hips  = IF HasBone(v, "hips")
              THEN [by |-> "idle", spin |-> 0, posBy |-> "idle"] ELSE @,
    !.spine = IF HasBone(v, "spine") THEN [by |-> "idle"] ELSE @,
    !.head  = IF HasBone(v, "head")
              THEN [by |-> "idle", zBy |-> "idle", gazeX |-> 0, gazeY |-> 0]
              ELSE @,
    !.arms  = IF HasBone(v, "arms") THEN [by |-> "idle"] ELSE @,
    !.pose  = IF v.bones # {}
              THEN [idx |-> w.s.currentIdleIndex,
                    phase |-> w.s.bodySwayPhase + w.s.idleTimer * 100,
                    blend |-> BlendFactor(w.cp)]
              ELSE @]]

\* main.js:501-502  the candidate expressions the rig exposes
Available(v) ==
  IF HasManager(v)
  THEN SelectSeq(<<"happy", "relaxed">>, LAMBDA e : e \in v.exprs)
  ELSE <<>>

\* The trigger starting a new interval when the rig exposes no candidate
IdleExpressionTriggerRedraws(w, v, delta, rnd) ==
  LET timer1 == w.s.expressionTimer + delta
      n == Len(Available(v))
  IN IF w.s.expressionFadeDir = 0 /\ timer1 >= w.s.nextExpressionTime
     THEN IF n > 0
          THEN [w EXCEPT !.s = [w.s EXCEPT
             !.currentExpression = Available(v)[((rnd.exprPick * n) \div 2) + 1],
             !.expressionFadeDir = 1,
             !.expressionWeight = 0,
             !.expressionTimer = 0,
             !.nextExpressionTime = rnd.exprTime]]
          ELSE [w EXCEPT !.s = [w.s EXCEPT !.expressionTimer = 0,
                                           !.nextExpressionTime = rnd.exprTime]]
     ELSE [w EXCEPT !.s = [w.s EXCEPT !.expressionTimer = timer1]]

\* main.js:499-510  the ambient expression trigger
IdleExpressionTrigger(w, v, delta, rnd) ==
  LET timer1 == w.s.expressionTimer + delta
      n == Len(Available(v))
  IN IF w.s.expressionFadeDir = 0 /\ timer1 >= w.s.nextExpressionTime /\ n > 0
     THEN [w EXCEPT !.s = [w.s EXCEPT
             !.currentExpression = Available(v)[((rnd.exprPick * n) \div 2) + 1],
             !.expressionFadeDir = 1,
             !.expressionWeight = 0,
             !.expressionTimer = 0,
             !.nextExpressionTime = rnd.exprTime]]
     ELSE [w EXCEPT !.s = [w.s EXCEPT !.expressionTimer = timer1]]

\* The fade leaving the expression in place when it has faded out
IdleExpressionFadeKeepsName(w, v, delta) ==
  LET up == Min(ExpressionCap, w.s.expressionWeight + delta * 8)
      down == Max(0, w.s.expressionWeight - delta * 5)
      cur == w.s.currentExpression
  IN IF cur = "null" \/ ~HasManager(v) THEN w
     ELSE IF w.s.expressionFadeDir = 1
     THEN [w EXCEPT !.s = [w.s EXCEPT !.expressionWeight = up,
                                      !.expressionFadeDir =
                                          IF up >= ExpressionCeiling THEN -1 ELSE 1],
                    !.r = SetValue(w.r, v, cur, "ambient", up)]
     ELSE IF w.s.expressionFadeDir = -1
     THEN IF down <= 0
          THEN [w EXCEPT !.s = [w.s EXCEPT !.expressionWeight = down,
                                           !.expressionFadeDir = 0],
                         !.r = SetValue(w.r, v, cur, "ambient", 0)]
          ELSE [w EXCEPT !.s = [w.s EXCEPT !.expressionWeight = down],
                         !.r = SetValue(w.r, v, cur, "ambient", down)]
     ELSE SetValueOnly(w, v, cur)

\* main.js:512-527  the ambient expression fade
IdleExpressionFadeNoZero(w, v, delta) ==
  LET up == Min(ExpressionCap, w.s.expressionWeight + delta * 8)
      down == Max(0, w.s.expressionWeight - delta * 5)
      cur == w.s.currentExpression
  IN IF cur = "null" \/ ~HasManager(v) THEN w
     ELSE IF w.s.expressionFadeDir = 1
     THEN [w EXCEPT !.s = [w.s EXCEPT !.expressionWeight = up,
                                      !.expressionFadeDir =
                                          IF up >= ExpressionCeiling THEN -1 ELSE 1],
                    !.r = SetValue(w.r, v, cur, "ambient", up)]
     ELSE IF w.s.expressionFadeDir = -1
     THEN IF down <= 0
          THEN [w EXCEPT !.s = [w.s EXCEPT !.expressionWeight = down,
                                           !.expressionFadeDir = 0,
                                           !.currentExpression = "null"]]
          ELSE [w EXCEPT !.s = [w.s EXCEPT !.expressionWeight = down],
                         !.r = SetValue(w.r, v, cur, "ambient", down)]
     ELSE SetValueOnly(w, v, cur)

IdleExpressionFade(w, v, delta) ==
  LET up == Min(ExpressionCap, w.s.expressionWeight + delta * 8)
      down == Max(0, w.s.expressionWeight - delta * 5)
      cur == w.s.currentExpression
  IN IF cur = "null" \/ ~HasManager(v) THEN w
     ELSE IF w.s.expressionFadeDir = 1
     THEN [w EXCEPT !.s = [w.s EXCEPT !.expressionWeight = up,
                                      !.expressionFadeDir =
                                          IF up >= ExpressionCeiling THEN -1 ELSE 1],
                    !.r = SetValue(w.r, v, cur, "ambient", up)]
     ELSE IF w.s.expressionFadeDir = -1
     THEN IF down <= 0
          THEN [w EXCEPT !.s = [w.s EXCEPT !.expressionWeight = down,
                                           !.expressionFadeDir = 0,
                                           !.currentExpression = "null"],
                         !.r = SetValue(w.r, v, cur, "ambient", 0)]
          ELSE [w EXCEPT !.s = [w.s EXCEPT !.expressionWeight = down],
                         !.r = SetValue(w.r, v, cur, "ambient", down)]
     ELSE SetValueOnly(w, v, cur)

\* main.js:530-531  sway phases
IdleSway(w, delta) ==
  [w EXCEPT !.s = [w.s EXCEPT !.bodySwayPhase = @ + delta * 15,
                              !.headSwayPhase = @ + delta * 30]]

updateIdleAnimation(w, v, delta, rnd) ==
  IF ~v.loaded THEN w
  ELSE IdleSway(
         IdleExpressionFade(
           IdleExpressionTrigger(
             IdleApplyPose(
               IdleBlinkStep(
                 IdleBlinkStart(IdleCycling(w, v, delta), delta, rnd),
                 v, delta),
               v),
             v, delta, rnd),
           v, delta),
         delta)

\* main.js:538-551  triggerChatAnimation; next is the index the do-while
\* loop ends with (any index but the current one).
triggerChatAnimation(s, next) ==
  [s EXCEPT !.state = CHAT, !.chatTimer = 0, !.currentChatIndex = next]

\* updateChatAnimation ending the gesture one frame late
updateChatAnimationLate(w, v, delta) ==
  LET timer1 == w.s.chatTimer + delta
      duration == ChatDuration(w.s.currentChatIndex)
  IN IF ~v.loaded THEN w
     ELSE [w EXCEPT
       !.r = [w.r EXCEPT
         !.hips  = IF HasBone(v, "hips")
                   THEN [by |-> "chat", spin |-> 0, posBy |-> "chat"] ELSE @,
         !.spine = IF HasBone(v, "spine") THEN [by |-> "chat"] ELSE @,
         !.head  = IF HasBone(v, "head")
                   THEN [by |-> "chat", zBy |-> "chat", gazeX |-> 0, gazeY |-> 0]
                   ELSE @,
         !.arms  = IF HasBone(v, "arms") THEN [by |-> "chat"] ELSE @,
         !.pose  = IF v.bones # {}
                   THEN [idx |-> w.s.currentChatIndex,
                         phase |-> Min(timer1, duration), blend |-> 0]
                   ELSE @],
       !.s = [w.s EXCEPT
         !.chatTimer = timer1,
         !.breathPhase = @ + delta * 12,
         \* progress = Math.min(1, chatTimer / duration) >= 1
         !.state = IF timer1 > duration THEN IDLE ELSE @,
         !.idleTimer = IF timer1 > duration THEN 0 ELSE @]]

\* main.js:553-612  updateChatAnimation(delta)
updateChatAnimation(w, v, delta) ==
  LET timer1 == w.s.chatTimer + delta
      duration == ChatDuration(w.s.currentChatIndex)
  IN IF ~v.loaded THEN w
     ELSE [w EXCEPT
       !.r = [w.r EXCEPT
         !.hips  = IF HasBone(v, "hips")
                   THEN [by |-> "chat", spin |-> 0, posBy |-> "chat"] ELSE @,
         !.spine = IF HasBone(v, "spine") THEN [by |-> "chat"] ELSE @,
         !.head  = IF HasBone(v, "head")
                   THEN [by |-> "chat", zBy |-> "chat", gazeX |-> 0, gazeY |-> 0]
                   ELSE @,
         !.arms  = IF HasBone(v, "arms") THEN [by |-> "chat"] ELSE @,
         !.pose  = IF v.bones # {}
                   THEN [idx |-> w.s.currentChatIndex,
                         phase |-> Min(timer1, duration), blend |-> 0]
                   ELSE @],
       !.s = [w.s EXCEPT
         !.chatTimer = timer1,
         !.breathPhase = @ + delta * 12,
         \* progress = Math.min(1, chatTimer / duration) >= 1
         !.state = IF timer1 >= duration THEN IDLE ELSE @,
         !.idleTimer = IF timer1 >= duration THEN 0 ELSE @]]

\* main.js:615-622  triggerTwirlAnimation
triggerTwirlAnimation(s) ==
  [s EXCEPT !.state = TWIRL, !.twirlTimer = 0, !.twirlPhase = "twirl",
            !.twirlRotation = 0]

\* main.js:638, 717  ease = 1 - (1 - p)^3 for p = Math.min(1, timer /
\* duration), as a fraction of YawDen (duration divides 300).
EaseOutCubic(timer, duration) ==
  YawDen - Cube((300 \div duration) * (duration - Min(timer, duration)))

\* main.js:722  `breathValue` is read in the return phase, but it is a const
\* declared at main.js:764, further down the same function: the read is in
\* its temporal dead zone and raises a ReferenceError.
BreathValueReadable == FALSE
\* main.js:747-748  `spine` and `chest` are declared in no scope that
\* updateTwirlAnimation can see: evaluating them raises a ReferenceError.
SpineDeclared == FALSE

\* main.js:763  breathing continues during twirl
TwirlBreathe(w, delta) ==
  IF w.threw THEN w
  ELSE [w EXCEPT !.s = [w.s EXCEPT !.breathPhase = @ + delta * 12]]

\* The spin ending one frame late: the timer has to pass the duration
TwirlPhaseLate(w, v) ==
  LET rot == EaseOutCubic(w.s.twirlTimer, TwirlDuration)
  IN [w EXCEPT
       !.r = [w.r EXCEPT
         !.hips = IF HasBone(v, "hips")
                  THEN [by |-> "twirl", spin |-> rot, posBy |-> "twirl"] ELSE @,
         !.arms = IF HasBone(v, "arms") THEN [by |-> "twirl"] ELSE @],
       !.s = [w.s EXCEPT
         !.twirlRotation = rot,
         !.twirlPhase = IF w.s.twirlTimer > TwirlDuration THEN "smile" ELSE @,
         !.twirlTimer = IF w.s.twirlTimer > TwirlDuration THEN 0 ELSE @]]

\* main.js:636-662  the spin (w.s.twirlTimer is already advanced)
TwirlPhase(w, v) ==
  LET rot == EaseOutCubic(w.s.twirlTimer, TwirlDuration)
  IN [w EXCEPT
       !.r = [w.r EXCEPT
         !.hips = IF HasBone(v, "hips")
                  THEN [by |-> "twirl", spin |-> rot, posBy |-> "twirl"] ELSE @,
         !.arms = IF HasBone(v, "arms") THEN [by |-> "twirl"] ELSE @],
       !.s = [w.s EXCEPT
         !.twirlRotation = rot,
         !.twirlPhase = IF w.s.twirlTimer >= TwirlDuration THEN "smile" ELSE @,
         !.twirlTimer = IF w.s.twirlTimer >= TwirlDuration THEN 0 ELSE @]]

\* main.js:665-683  the smile
SmilePhase(w, v) ==
  LET p == Min(w.s.twirlTimer, SmileDuration)
      r1 == SetValue(w.r, v, "happy", "smile", p)
  IN [w EXCEPT
       !.r = [r1 EXCEPT !.head = IF HasBone(v, "head")
                                 THEN [@ EXCEPT !.zBy = "smile"] ELSE @],
       !.s = [w.s EXCEPT
         !.twirlPhase = IF w.s.twirlTimer >= SmileDuration THEN "wink" ELSE @,
         !.twirlTimer = IF w.s.twirlTimer >= SmileDuration THEN 0 ELSE @]]

\* main.js:695-705  winkWeight * 0.7, rounded down to the fixed-point grid
WinkWeight(p) ==
  IF 2 * p < WinkDuration
  THEN (p * 2 * 700) \div WinkDuration
  ELSE ((WinkDuration - p) * 2 * 700) \div WinkDuration

\* main.js:686-712  the wink
WinkPhase(w, v) ==
  LET p == Min(w.s.twirlTimer, WinkDuration)
      r1 == SetValue(w.r, v, "happy", "wink", 700)
  IN [w EXCEPT
       !.r = SetValue(r1, v, "blink", "wink", WinkWeight(p)),
       !.s = [w.s EXCEPT
         !.twirlPhase = IF w.s.twirlTimer >= WinkDuration THEN "return" ELSE @,
         !.twirlTimer = IF w.s.twirlTimer >= WinkDuration THEN 0 ELSE @]]

\* The return phase with the ease left out of the yaw: the hips unwind
\* towards a full turn instead of towards 0.
ReturnHipsEaseIn(w, v) ==
  IF ~HasBone(v, "hips") THEN w
  ELSE [w EXCEPT !.threw = TRUE,
                 !.r = [w.r EXCEPT !.hips =
          [@ EXCEPT !.by = "return",
                    !.spin = EaseOutCubic(w.s.twirlTimer, ReturnDuration)]]]

\* main.js:720-723  the hips of the return phase: the yaw is written, then
\* the hop reads breathValue
ReturnHips(w, v) ==
  IF ~HasBone(v, "hips") THEN w
  ELSE IF BreathValueReadable
  THEN [w EXCEPT !.r = [w.r EXCEPT !.hips =
          [by |-> "return", posBy |-> "return",
           spin |-> YawDen - EaseOutCubic(w.s.twirlTimer, ReturnDuration)]]]
  ELSE [w EXCEPT !.threw = TRUE,
                 !.r = [w.r EXCEPT !.hips =
          [@ EXCEPT !.by = "return",
                    !.spin = YawDen - EaseOutCubic(w.s.twirlTimer, ReturnDuration)]]]

\* main.js:726-744  arms, expressions and head of the return phase
ReturnLimbs(w, v) ==
  LET p == Min(w.s.twirlTimer, ReturnDuration)
      r1 == SetValue(w.r, v, "happy", "return", (ReturnDuration - p) * 5)
      r2 == SetValue(r1, v, "blink", "return", 0)
  IN IF w.threw THEN w
     ELSE [w EXCEPT !.r = [r2 EXCEPT
            !.arms = IF HasBone(v, "arms") THEN [by |-> "return"] ELSE @,
            !.head = IF HasBone(v, "head")
                     THEN [by |-> "return", zBy |-> "return",
                           gazeX |-> 0, gazeY |-> 0]
                     ELSE @]]

\* main.js:747-748  if (spine) ...; if (chest) ...
ReturnSpine(w, v) ==
  IF w.threw THEN w
  ELSE IF SpineDeclared
  THEN [w EXCEPT !.r = [w.r EXCEPT !.spine = IF HasBone(v, "spine")
                                             THEN [by |-> "return"] ELSE @]]
  ELSE [w EXCEPT !.threw = TRUE]

\* main.js:750-759  the end of the return phase
ReturnComplete(w, v) ==
  IF w.threw \/ w.s.twirlTimer < ReturnDuration THEN w
  ELSE [w EXCEPT !.s = [w.s EXCEPT !.state = IDLE, !.twirlPhase = "twirl",
                                   !.twirlRotation = 0, !.wasDragged = FALSE,
                                   !.idleTimer = 0],
                 !.r = resetToDefaultPose(w.r, v)]

\* main.js:715-760  the return phase
ReturnPhase(w, v) ==
  ReturnComplete(ReturnSpine(ReturnLimbs(ReturnHips(w, v), v), v), v)

\* main.js:628  state.twirlTimer += delta
TwirlAdvance(w, delta) ==
  [w EXCEPT !.s = [w.s EXCEPT !.twirlTimer = @ + delta]]

\* main.js:636-760  the phase dispatch
TwirlDispatch(w, v) ==
  CASE w.s.twirlPhase = "twirl"  -> TwirlPhase(w, v)
    [] w.s.twirlPhase = "smile"  -> SmilePhase(w, v)
    [] w.s.twirlPhase = "wink"   -> WinkPhase(w, v)
    [] w.s.twirlPhase = "return" -> ReturnPhase(w, v)
    [] OTHER -> w

\* main.js:624-767  updateTwirlAnimation(delta).  w.threw tells whether the
\* call raised; what was assigned before the exception stays assigned.
updateTwirlAnimation(w, v, delta) ==
  IF ~v.loaded THEN w
  ELSE TwirlBreathe(TwirlDispatch(TwirlAdvance(w, delta), v), delta)

\* updateAnimation running the idle driver under the gesture drivers
updateAnimationIdleBelow(w, v, delta, rnd) ==
  IF w.s.state = TWIRL
  THEN updateTwirlAnimation(updateIdleAnimation(w, v, delta, rnd), v, delta)
  ELSE IF w.s.state = CHAT
       THEN updateChatAnimation(updateIdleAnimation(w, v, delta, rnd), v, delta)
       ELSE updateIdleAnimation(w, v, delta, rnd)

\* main.js:770-780  updateAnimation(delta)
updateAnimation(w, v, delta, rnd) ==
  IF w.s.state = TWIRL THEN updateTwirlAnimation(w, v, delta)
  ELSE IF w.s.state = CHAT
       THEN updateChatAnimation(w, v, delta)
       ELSE updateIdleAnimation(w, v, delta, rnd)

\* main.js:791-806  updateLookAt(delta) on the frame record w, which also
\* carries targetLook (w.tl); m is the mouse position.
updateLookAt(w, v, m, delta) ==
  LET tx == w.tl.x + ((m.x * 15 - w.tl.x) * delta * 3) \div 100
      ty == w.tl.y + ((m.y * 10 - w.tl.y) * delta * 3) \div 100
  IN IF ~(v.loaded /\ v.lookAt) THEN w
     ELSE [w EXCEPT
            !.tl = [x |-> tx, y |-> ty],
            !.r = [w.r EXCEPT !.head = IF HasBone(v, "head")
                                       THEN [@ EXCEPT !.gazeY = @ + tx * 20,
                                                      !.gazeX = @ - ty * 15]
                                       ELSE @]]

\* main.js:821-825  the body of a frame: an exception raised by
\* updateAnimation leaves animate() before updateLookAt and the render.
FrameEnd(w, v, m, delta) ==
  IF w.threw THEN [w EXCEPT !.frame = "threw"]
  ELSE [updateLookAt(w, v, m, delta) EXCEPT !.frame = "rendered"]

FrameBody(s, r, tl, v, m, delta, rnd) ==
  FrameEnd(updateAnimation([s |-> s, r |-> r, tl |-> tl, cp |-> 0,
                            threw |-> FALSE, frame |-> "none"],
                           v, delta, rnd),
           v, m, delta)


\* No sendMessage call has been made.  stage is the await the call is at
\* ("chat", "translate", "speech"), "done" once handleSend has finished;
\* statuses are the values passed to onStatus; label is the reply's emotion;
\* lipStarted, lipStopped and emotionSet record the calls of startLipSync,
\* stopLipSync and setEmotion the turn has made, outcome how it ended.
NoTurn == [stage |-> "none", statuses |-> <<>>, label |-> "none",
           lipStarted |-> FALSE, lipStopped |-> FALSE, emotionSet |-> FALSE,
           outcome |-> "none", ignored |-> 0]

\* ------------------------------------------------------------------ Init
\* main.js:88-123 with the module-level lets of main.js:42, 783-784,
\* 811, 874-875, 963.  draws holds the Math.random() values of 91-97.
InitWith(draws) ==
  /\ now = 0
  /\ lastFrameTime = 0
  /\ clockOld = -1
  /\ vrm = NoVrm
  /\ loader = "pending"
  /\ animationState =
       [breathPhase |-> 0,
        blinkTimer |-> 0,
        nextBlinkTime |-> draws.blink,
        isBlinking |-> FALSE,
        blinkProgress |-> 0,
        headSwayPhase |-> draws.sway,
        bodySwayPhase |-> draws.sway,
        expressionTimer |-> 0,
        nextExpressionTime |-> draws.exprTime,
        currentExpression |-> "null",
        expressionWeight |-> 0,
        expressionFadeDir |-> 0,
        state |-> IDLE,
        currentIdleIndex |-> 0,
        idleTimer |-> 0,
        currentChatIndex |-> 0,
        chatTimer |-> 0,
        twirlTimer |-> 0,
        twirlPhase |-> "twirl",
        twirlRotation |-> 0,
        isBeingDragged |-> FALSE,
        wasDragged |-> FALSE,
        dragEndTimer |-> 0]
  /\ isDragging = FALSE
  /\ dragStartTime = 0
  /\ mouse = [x |-> 0, y |-> 0]
  /\ targetLook = [x |-> 0, y |-> 0]
  /\ rig = FreshRig
  /\ frame = "none"
  /\ isSending = FALSE
  /\ presses = 0
  /\ sends = 0
  /\ shorts = 0
  /\ currentEmotionExpression = "null"
  /\ targetEmotionWeight = 0
  /\ turn = NoTurn
  /\ lipSyncActive = FALSE

\* --------------------------------------------------------------- actions
\* main.js:48-71  the loader's success callback: the VRM v is loaded and
\* startIdleAnimation (328-334) picks the start pose at random.
LoadVRM(v, startIdx) ==
  /\ loader = "pending"
  /\ loader' = "loaded"
  /\ vrm' = v
  /\ animationState' = [animationState EXCEPT !.currentIdleIndex = startIdx,
                                              !.idleTimer = 0,
                                              !.state = IDLE]
  /\ UNCHANGED <<chatjs, now, lastFrameTime, clockOld, isDragging, dragStartTime,
                 mouse, targetLook, rig, frame, presses, shorts, dialogue>>

\* main.js:75-77  the loader's error callback
LoadError ==
  /\ loader = "pending"
  /\ loader' = "failed"
  /\ UNCHANGED <<chatjs, now, lastFrameTime, clockOld, vrm, animationState,
                 isDragging, dragStartTime, mouse, targetLook, rig, frame,
                 presses, shorts, dialogue>>

\* main.js:809  FPS; frameInterval = 1000 / FPS ms, so a tick is early when
\* (time - lastFrameTime) * FPS < 100 in cs.
FPS == 30

\* main.js:819  Math.min(clock.getDelta(), 0.1) for the call at time `time`
\* when the clock was last read at `old` (-1: never).  THREE.Clock.getDelta()
\* returns 0 on its first call (it starts the clock).
FrameDeltaUnclamped(old, time) ==
  IF old = -1 THEN 0 ELSE time - old

FrameDelta(old, time) ==
  IF old = -1 THEN 0 ELSE Min(time - old, MaxDelta)

\* main.js:813-826  animate(time), called gap cs after the previous call.
AnimateStampsFirst(gap, rnd) ==
  /\ now' = now + gap
  /\ lastFrameTime' = now + gap
  /\ IF (now + gap - lastFrameTime) * FPS < 100
     THEN /\ frame' = "skipped"
          /\ UNCHANGED <<clockOld, animationState, targetLook, rig>>
     ELSE LET f == FrameBody(animationState, rig, targetLook, vrm, mouse,
                             FrameDelta(clockOld, now + gap), rnd)
          IN /\ clockOld' = now + gap
             /\ animationState' = f.s
             /\ rig' = f.r
             /\ targetLook' = f.tl
             /\ frame' = f.frame
  /\ shorts' = IF gap < MaxDelta THEN shorts + 1 ELSE shorts
  /\ UNCHANGED <<chatjs, vrm, loader, isDragging, dragStartTime, mouse, presses,
                 dialogue>>

\* animate() holding the animation back while a dialogue turn is in flight
AnimateAwaitsTurn(gap, rnd) ==
  /\ now' = now + gap
  /\ IF (now + gap - lastFrameTime) * FPS < 100
     THEN /\ frame' = "skipped"
          /\ UNCHANGED <<lastFrameTime, clockOld, animationState, targetLook, rig>>
     ELSE LET f == FrameBody(animationState, rig, targetLook, vrm, mouse,
                             FrameDelta(clockOld, now + gap), rnd)
          IN /\ lastFrameTime' = now + gap
             /\ clockOld' = now + gap
             /\ frame' = f.frame
             /\ IF isSending
                THEN UNCHANGED <<animationState, rig, targetLook>>
                ELSE /\ animationState' = f.s
                     /\ rig' = f.r
                     /\ targetLook' = f.tl
  /\ shorts' = IF gap < MaxDelta THEN shorts + 1 ELSE shorts
  /\ UNCHANGED <<chatjs, vrm, loader, isDragging, dragStartTime, mouse, presses,
                 dialogue>>

Animate(gap, rnd) ==
  /\ now' = now + gap
  /\ IF (now + gap - lastFrameTime) * FPS < 100
     THEN /\ frame' = "skipped"
          /\ UNCHANGED <<lastFrameTime, clockOld, animationState, targetLook, rig>>
     ELSE LET f == FrameBody(animationState, rig, targetLook, vrm, mouse,
                             FrameDelta(clockOld, now + gap), rnd)
          IN /\ lastFrameTime' = now + gap
             /\ clockOld' = now + gap
             /\ animationState' = f.s
             /\ rig' = f.r
             /\ targetLook' = f.tl
             /\ frame' = f.frame
  /\ shorts' = IF gap < MaxDelta THEN shorts + 1 ELSE shorts
  /\ UNCHANGED <<chatjs, vrm, loader, isDragging, dragStartTime, mouse, presses,
                 dialogue>>

\* main.js:877-889 and 908-918  mousedown on the canvas or the drag region
\* with the primary button
MouseDown ==
  /\ dragStartTime' = now
  /\ isDragging' = TRUE
  /\ animationState' = [animationState EXCEPT !.isBeingDragged = TRUE]
  /\ presses' = presses + 1
  /\ UNCHANGED <<chatjs, now, lastFrameTime, clockOld, vrm, loader, mouse,
                 targetLook, rig, frame, shorts, dialogue>>

\* main.js:892-905  mouseup on the window
MouseUpShortPress ==
  /\ IF isDragging
     THEN LET dragDuration == now - dragStartTime
              s1 == [animationState EXCEPT !.isBeingDragged = FALSE,
                                           !.wasDragged = TRUE,
                                           !.dragEndTimer = 0]
          IN /\ isDragging' = FALSE
             /\ animationState' =
                  IF dragDuration < DragThreshold /\ s1.state # TWIRL
                  THEN triggerTwirlAnimation(s1)
                  ELSE s1
     ELSE UNCHANGED <<isDragging, animationState>>
  /\ UNCHANGED <<chatjs, now, lastFrameTime, clockOld, vrm, loader, dragStartTime,
                 mouse, targetLook, rig, frame, presses, shorts, dialogue>>

MouseUpNoGuard ==
  /\ IF isDragging
     THEN LET dragDuration == now - dragStartTime
              s1 == [animationState EXCEPT !.isBeingDragged = FALSE,
                                           !.wasDragged = TRUE,
                                           !.dragEndTimer = 0]
          IN /\ isDragging' = FALSE
             /\ animationState' =
                  IF dragDuration > DragThreshold
                  THEN triggerTwirlAnimation(s1)
                  ELSE s1
     ELSE UNCHANGED <<isDragging, animationState>>
  /\ UNCHANGED <<chatjs, now, lastFrameTime, clockOld, vrm, loader, dragStartTime,
                 mouse, targetLook, rig, frame, presses, shorts, dialogue>>

MouseUp ==
  /\ IF isDragging
     THEN LET dragDuration == now - dragStartTime
              s1 == [animationState EXCEPT !.isBeingDragged = FALSE,
                                           !.wasDragged = TRUE,
                                           !.dragEndTimer = 0]
          IN /\ isDragging' = FALSE
             /\ animationState' =
                  IF dragDuration > DragThreshold /\ s1.state # TWIRL
                  THEN triggerTwirlAnimation(s1)
                  ELSE s1
     ELSE UNCHANGED <<isDragging, animationState>>
  /\ UNCHANGED <<chatjs, now, lastFrameTime, clockOld, vrm, loader, dragStartTime,
                 mouse, targetLook, rig, frame, presses, shorts, dialogue>>

\* main.js:786-789  mousemove: the pointer in normalised device coordinates
MouseMove(m) ==
  /\ mouse' = m
  /\ UNCHANGED <<chatjs, now, lastFrameTime, clockOld, vrm, loader, animationState,
                 isDragging, dragStartTime, targetLook, rig, frame, presses,
                 shorts, dialogue>>

\* main.js:921-935, 942  EMOTION_MAP[emotion] || 'neutral'
EMOTION_MAP(label) ==
  CASE label \in {"happy", "excited", "playful", "mischievous"} -> "happy"
    [] label \in {"neutral", "thoughtful", "curious"} -> "neutral"
    [] label \in {"concerned", "apologetic"} -> "sad"
    [] label \in {"annoyed", "disgusted", "possessive", "protective"} -> "angry"
    [] OTHER -> "neutral"

\* main.js:950  the fixed emotion weight 0.6
EmotionWeight == 600

\* setEmotion doing nothing for a label that maps to neutral
setEmotionNeutralIgnored(e, v, label) ==
  LET expr == EMOTION_MAP(label)
  IN IF expr = "neutral" THEN e
     ELSE [current |-> expr,
           target |-> EmotionWeight,
           r |-> IF e.current # "null" /\ e.current # expr /\ HasManager(v)
                 THEN SetValue(e.r, v, e.current, "emotion", 0)
                 ELSE e.r]

\* setEmotion writing the fixed weight, not 0, to the expression it leaves
setEmotionKeepsPrevious(e, v, label) ==
  LET expr == EMOTION_MAP(label)
  IN IF expr = "neutral" THEN [e EXCEPT !.target = 0]
     ELSE [current |-> expr,
           target |-> EmotionWeight,
           r |-> IF e.current # "null" /\ e.current # expr /\ HasManager(v)
                 THEN SetValue(e.r, v, e.current, "emotion", EmotionWeight)
                 ELSE e.r]

\* main.js:941-952  setEmotion(emotion) on e = [current |->
\* currentEmotionExpression, target |-> targetEmotionWeight, r |-> rig].
\* emotionWeight (main.js:938) is assigned nowhere and no code reads
\* targetEmotionWeight (main.js:954-956).
setEmotion(e, v, label) ==
  LET expr == EMOTION_MAP(label)
  IN IF expr = "neutral" THEN [e EXCEPT !.target = 0]
     ELSE [current |-> expr,
           target |-> EmotionWeight,
           r |-> IF e.current # "null" /\ e.current # expr /\ HasManager(v)
                 THEN SetValue(e.r, v, e.current, "emotion", 0)
                 ELSE e.r]

\* handleSend without the isSending test of main.js:981
HandleSendUnguarded(nextChat) ==
  /\ loader = "loaded"
  /\ nextChat # animationState.currentChatIndex
  /\ isSending' = TRUE
  /\ animationState' = triggerChatAnimation(animationState, nextChat)
  /\ sends' = sends + 1
  /\ turn' = [NoTurn EXCEPT !.stage = "chat", !.statuses = <<"thinking">>]
  /\ UNCHANGED <<chatjs, now, lastFrameTime, clockOld, vrm, loader, isDragging,
                 dragStartTime, mouse, targetLook, rig, frame, presses, shorts,
                 currentEmotionExpression, targetEmotionWeight, lipSyncActive>>

\* main.js:979-994 and chat.js:218-219  handleSend with a non-empty text, up
\* to the first await of sendMessage; the chat UI exists once the VRM has
\* loaded (main.js:70).
HandleSend(nextChat) ==
  /\ loader = "loaded"
  /\ ~isSending
  /\ nextChat # animationState.currentChatIndex
  /\ isSending' = TRUE
  /\ animationState' = triggerChatAnimation(animationState, nextChat)
  /\ sends' = sends + 1
  /\ turn' = [NoTurn EXCEPT !.stage = "chat", !.statuses = <<"thinking">>]
  /\ UNCHANGED <<chatjs, now, lastFrameTime, clockOld, vrm, loader, isDragging,
                 dragStartTime, mouse, targetLook, rig, frame, presses, shorts,
                 currentEmotionExpression, targetEmotionWeight, lipSyncActive>>

\* main.js:979-981  handleSend called while a turn is in flight returns at
\* once; the call is counted in the turn's record.
HandleSendInFlight ==
  /\ loader = "loaded"
  /\ isSending
  /\ turn.ignored < MaxIgnored
  /\ turn' = [turn EXCEPT !.ignored = @ + 1]
  /\ UNCHANGED <<chatjs, now, lastFrameTime, clockOld, vrm, loader, animationState,
                 isDragging, dragStartTime, mouse, targetLook, rig, frame,
                 presses, shorts, isSending, sends, currentEmotionExpression,
                 targetEmotionWeight, lipSyncActive>>

\* chat.js:222-223  chatWithSharon resolves with the reply's emotion label
ChatReply(label) ==
  /\ turn.stage = "chat"
  /\ turn' = [turn EXCEPT !.stage = "translate", !.label = label,
                          !.statuses = Append(@, "translating")]
  /\ UNCHANGED <<chatjs, now, lastFrameTime, clockOld, vrm, loader, animationState,
                 isDragging, dragStartTime, mouse, targetLook, rig, frame,
                 presses, shorts, isSending, sends, currentEmotionExpression,
                 targetEmotionWeight, lipSyncActive>>

\* chat.js:227-236, main.js:1004-1005  the translation succeeds: status
\* 'speaking', on which handleSend's callback calls startLipSync()
TranslateOk ==
  /\ turn.stage = "translate"
  /\ turn' = [turn EXCEPT !.stage = "speech", !.lipStarted = TRUE,
                          !.statuses = Append(@, "speaking")]
  /\ lipSyncActive' = TRUE
  /\ UNCHANGED <<chatjs, now, lastFrameTime, clockOld, vrm, loader, animationState,
                 isDragging, dragStartTime, mouse, targetLook, rig, frame,
                 presses, shorts, isSending, sends, currentEmotionExpression,
                 targetEmotionWeight>>

\* Resolved with setEmotion left out of the continuation
ResolvedNoEmotion(outcome) ==
  /\ turn' = [turn EXCEPT !.stage = "done", !.outcome = outcome,
                          !.lipStopped = TRUE,
                          !.statuses = Append(@, "idle")]
  /\ lipSyncActive' = FALSE
  /\ isSending' = FALSE
  /\ UNCHANGED <<chatjs, now, lastFrameTime, clockOld, vrm, loader, animationState,
                 isDragging, dragStartTime, mouse, targetLook, rig, frame,
                 presses, shorts, sends, currentEmotionExpression,
                 targetEmotionWeight>>

\* chat.js:233, 252-254 and main.js:1009-1033  sendMessage reports 'idle' and
\* resolves with { emotion, text }: handleSend goes on with
\* setEmotion(result.emotion), stopLipSync() and isSending = false.
Resolved(outcome) ==
  LET e == setEmotion([current |-> currentEmotionExpression,
                       target |-> targetEmotionWeight, r |-> rig],
                      vrm, turn.label)
  IN /\ turn' = [turn EXCEPT !.stage = "done", !.outcome = outcome,
                             !.emotionSet = TRUE, !.lipStopped = TRUE,
                             !.statuses = Append(@, "idle")]
     /\ currentEmotionExpression' = e.current
     /\ targetEmotionWeight' = e.target
     /\ rig' = e.r
     /\ lipSyncActive' = FALSE
     /\ isSending' = FALSE
     /\ UNCHANGED <<chatjs, now, lastFrameTime, clockOld, vrm, loader, animationState,
                    isDragging, dragStartTime, mouse, targetLook, frame,
                    presses, shorts, sends>>

\* Rejected with the status 'idle' reported before the rejection
RejectedReportsIdle(outcome) ==
  /\ turn' = [turn EXCEPT !.stage = "done", !.outcome = outcome,
                          !.lipStopped = TRUE,
                          !.statuses = Append(@, "idle")]
  /\ lipSyncActive' = FALSE
  /\ isSending' = FALSE
  /\ UNCHANGED <<chatjs, now, lastFrameTime, clockOld, vrm, loader, animationState,
                 isDragging, dragStartTime, mouse, targetLook, rig, frame,
                 presses, shorts, sends, currentEmotionExpression,
                 targetEmotionWeight>>

\* Rejected with stopLipSync() left out of the catch
RejectedLeavesLipSync(outcome) ==
  /\ turn' = [turn EXCEPT !.stage = "done", !.outcome = outcome]
  /\ isSending' = FALSE
  /\ UNCHANGED <<chatjs, now, lastFrameTime, clockOld, vrm, loader, animationState,
                 isDragging, dragStartTime, mouse, targetLook, rig, frame,
                 presses, shorts, sends, currentEmotionExpression,
                 targetEmotionWeight, lipSyncActive>>

\* main.js:1021-1033  sendMessage rejects: handleSend's catch calls
\* stopLipSync(), then isSending = false.
Rejected(outcome) ==
  /\ turn' = [turn EXCEPT !.stage = "done", !.outcome = outcome,
                          !.lipStopped = TRUE]
  /\ lipSyncActive' = FALSE
  /\ isSending' = FALSE
  /\ UNCHANGED <<chatjs, now, lastFrameTime, clockOld, vrm, loader, animationState,
                 isDragging, dragStartTime, mouse, targetLook, rig, frame,
                 presses, shorts, sends, currentEmotionExpression,
                 targetEmotionWeight>>

\* chat.js:222  chatWithSharon rejects
ChatFail == turn.stage = "chat" /\ Rejected("chatFailed")

\* chat.js:230-234  translateToJapanese rejects
TranslateFail == turn.stage = "translate" /\ Resolved("translateFailed")

\* chat.js:241-254  the speech has been generated and played
SpeechDone == turn.stage = "speech" /\ Resolved("spoken")

\* chat.js:246-250  generateSpeech or playAudio rejects
SpeechFail == turn.stage = "speech" /\ Rejected("ttsFailed")

\* ---------------------------------------------------- chat.js: the parser
\* A reply is a sequence of tokens, each a piece of text no pattern of
\* parseEmotionTag matches a part of: tags, words and blanks.
\* chat.js:71-72  what /<[a-zA-Z_|]+>/ matches
OpeningTags == {"<emotion>", "<response>", "<memory>", "<|bot|>", "<|user|>",
                "<|im_sep|>", "<|im_end|>"}

\* chat.js:71  what /<\/[a-zA-Z_|]+>/ matches
ClosingTags == {"</emotion>", "</response>"}

\* Tokens that end with one of . ! ? (chat.js:87)
Terminated == {"Hi."}

\* chat.js:94  the hard cap of words
WordCap == 20

\* chat.js:90  below this many words the second sentence is taken too
MinWords == 5

\* Index of the first token of s that is in T, or 0
RECURSIVE FirstIn(_, _)
FirstIn(s, T) ==
  IF s = <<>> THEN 0
  ELSE IF Head(s) \in T THEN 1
  ELSE LET k == FirstIn(Tail(s), T) IN IF k = 0 THEN 0 ELSE k + 1

\* s.replace(/t/g, '') for the tokens t of T
RemoveAll(s, T) == LET keep(t) == t \notin T IN SelectSeq(s, keep)

\* s.replace(/t[\s\S]*/g, '') for the tokens t of T
CutAt(s, T) ==
  LET k == FirstIn(s, T) IN IF k = 0 THEN s ELSE SubSeq(s, 1, k - 1)

\* chat.js:71  every opening tag that has a closing tag after it is removed
\* together with everything up to the first such closing tag
RECURSIVE StripPairs(_)
StripPairs(s) ==
  IF s = <<>> THEN <<>>
  ELSE LET k == FirstIn(Tail(s), ClosingTags)
       IN IF Head(s) \in OpeningTags /\ k > 0
            THEN StripPairs(SubSeq(s, k + 2, Len(s)))
            ELSE <<Head(s)>> \o StripPairs(Tail(s))

RECURSIVE TrimStart(_)
TrimStart(s) ==
  IF s # <<>> /\ Head(s) = " " THEN TrimStart(Tail(s)) ELSE s

RECURSIVE TrimEnd(_)
TrimEnd(s) ==
  IF s # <<>> /\ s[Len(s)] = " " THEN TrimEnd(SubSeq(s, 1, Len(s) - 1)) ELSE s

\* String.prototype.trim
Trim(s) == TrimEnd(TrimStart(s))

\* chat.js:66-76
Cleaned(text) ==
  LET a == RemoveAll(text, {"<|bot|>"})
      b == CutAt(a, {"<|user|>"})
      c == RemoveAll(b, {"<response>"})
      d == CutAt(c, {"</response>"})
      e == StripPairs(d)
      f == RemoveAll(e, OpeningTags)
      g == CutAt(f, {"<memory>"})
      h == CutAt(g, {"<|im_sep|>"})
      i == CutAt(h, {"<|im_end|>"})
  IN Trim(i)

\* chat.js:78-84  the match of /^<emotion>(.*?)<\/emotion>\s*/
EmotionAndRest(cleaned) ==
  LET k == IF cleaned # <<>> /\ Head(cleaned) = "<emotion>"
             THEN FirstIn(Tail(cleaned), {"</emotion>"}) ELSE 0
  IN IF k > 0
       THEN [emotion |-> Trim(SubSeq(cleaned, 2, k)),
             text |-> Trim(SubSeq(cleaned, k + 2, Len(cleaned)))]
       ELSE [emotion |-> <<"neutral">>, text |-> cleaned]

\* split(/\s+/) of a trimmed text
RECURSIVE WordsOf(_)
WordsOf(s) ==
  IF s = <<>> THEN <<>>
  ELSE IF Head(s) = " " THEN WordsOf(Tail(s))
  ELSE LET k == FirstIn(s, {" "})
           n == IF k = 0 THEN Len(s) ELSE k - 1
       IN <<SubSeq(s, 1, n)>> \o WordsOf(SubSeq(s, n + 1, Len(s)))

\* ''.split(/\s+/) is ['']
WordCount(s) == IF s = <<>> THEN 1 ELSE Len(WordsOf(s))

\* words.join(' ')
RECURSIVE JoinWords(_)
JoinWords(ws) ==
  IF ws = <<>> THEN <<>>
  ELSE IF Len(ws) = 1 THEN ws[1]
  ELSE ws[1] \o <<" ">> \o JoinWords(Tail(ws))

\* chat.js:86-97  the first sentence, with the second when the first has
\* fewer than five words, cut to twenty words
Shortened(finalText) ==
  LET k == FirstIn(finalText, Terminated)
      first == IF k = 0 THEN finalText ELSE SubSeq(finalText, 1, k)
      rest == SubSeq(finalText, Len(first) + 1, Len(finalText))
      k2 == FirstIn(rest, Terminated)
      second == IF k2 = 0 THEN rest ELSE SubSeq(rest, 1, k2)
      one == Trim(first)
      combined == IF WordCount(one) < MinWords /\ rest # <<>>
                    THEN Trim(first \o <<" ">> \o second) ELSE one
  IN IF WordCount(combined) > WordCap
       THEN JoinWords(SubSeq(WordsOf(combined), 1, WordCap))
       ELSE combined

\* chat.js:64-99
parseEmotionTag(text) ==
  LET m == EmotionAndRest(Cleaned(text))
  IN [emotion |-> m.emotion, text |-> Shortened(m.text)]

\* No reply has been parsed
NotParsed == [done |-> FALSE, emotion |-> <<>>, text |-> <<>>]

\* chat.js:50-58  chatWithSharon parses the reply it received
ParseReply ==
  /\ ~parsed.done
  /\ LET r == parseEmotionTag(reply)
     IN parsed' = [done |-> TRUE, emotion |-> r.emotion, text |-> r.text]
  /\ UNCHANGED <<now, lastFrameTime, clockOld, vrm, loader, animationState,
                 isDragging, dragStartTime, mouse, targetLook, rig, frame,
                 presses, shorts, dialogue, reply, _currentSource, sources>>

\* ---------------------------------------------------- chat.js: the player
\* A source is "playing" from start(0) on; "stopped" once stop() was called
\* on it and "finished" once its buffer ran out, its ended event pending in
\* both; "ended" once its onended handler ran, the timer of chat.js:201
\* pending; "resolved" once the promise of its playAudio call resolved.
\* chat.js:189-191  stop() on the source _currentSource refers to
StopCurrent ==
  IF _currentSource # 0 /\ sources[_currentSource] = "playing"
    THEN [sources EXCEPT ![_currentSource] = "stopped"]
    ELSE sources

\* chat.js:183-204  playAudio runs to the end of its try block
playAudio ==
  /\ Len(sources) < MaxSources
  /\ sources' = Append(StopCurrent, "playing")
  /\ _currentSource' = Len(sources) + 1
  /\ UNCHANGED <<now, lastFrameTime, clockOld, vrm, loader, animationState,
                 isDragging, dragStartTime, mouse, targetLook, rig, frame,
                 presses, shorts, dialogue, reply, parsed>>

\* chat.js:185-209  playAudio throws on its buffer (line 194), after the
\* stop of line 190: the catch clears _currentSource and resolves
PlayAudioFails ==
  /\ _currentSource # 0
  /\ sources' = StopCurrent
  /\ _currentSource' = 0
  /\ UNCHANGED <<now, lastFrameTime, clockOld, vrm, loader, animationState,
                 isDragging, dragStartTime, mouse, targetLook, rig, frame,
                 presses, shorts, dialogue, reply, parsed>>

\* The buffer of source i has been played to its end
BufferEnds(i) ==
  /\ sources[i] = "playing"
  /\ sources' = [sources EXCEPT ![i] = "finished"]
  /\ UNCHANGED <<now, lastFrameTime, clockOld, vrm, loader, animationState,
                 isDragging, dragStartTime, mouse, targetLook, rig, frame,
                 presses, shorts, dialogue, reply, parsed, _currentSource>>

\* chat.js:198-202  the ended event of source i is delivered
onended(i) ==
  /\ sources[i] \in {"stopped", "finished"}
  /\ sources' = [sources EXCEPT ![i] = "ended"]
  /\ _currentSource' = 0
  /\ UNCHANGED <<now, lastFrameTime, clockOld, vrm, loader, animationState,
                 isDragging, dragStartTime, mouse, targetLook, rig, frame,
                 presses, shorts, dialogue, reply, parsed>>

\* chat.js:201  the timer set by source i's onended fires: resolve()
ResolveTimer(i) ==
  /\ sources[i] = "ended"
  /\ sources' = [sources EXCEPT ![i] = "resolved"]
  /\ UNCHANGED <<now, lastFrameTime, clockOld, vrm, loader, animationState,
                 isDragging, dragStartTime, mouse, targetLook, rig, frame,
                 presses, shorts, dialogue, reply, parsed, _currentSource>>

\* -------------------------------------------------------- specifications
\* Values drawn from Math.random(): nextBlinkTime is 0.15 s or in [2, 7) s
\* (main.js:432), initially in [2, 6) s (main.js:91); nextExpressionTime is
\* in [5, 15) s (main.js:97, 508).
InitDraws == [blink : {200}, sway : {0}, exprTime : {500}]
FrameDraws == [blink : {450}, exprTime : {500}, exprPick : {0, 1}]
\* rAF gaps (cs) between two animate() calls: a full gap of MaxDelta, and
\* early calls, of which a behaviour has a bounded number.
Gaps == {2, 6, 10}
\* Gaps (cs) after which the frame loop resumes when the page was suspended
SuspendGaps == {60}
\* The rigs loaded, each with the start poses startIdleAnimation may draw
LoadDraws == ({FullRig} \X (0 .. NumIdle - 1)) \cup {<<NoHipsRig, 1>>, <<BareRig, 2>>}
\* The rigs loaded in SpecClick
ClickLoadDraws == {<<FullRig, 0>>, <<NoHipsRig, 1>>}

\* chat.js:161-162  nothing has been played; no reply has been received
InitChatJs(replies) ==
  /\ reply \in replies
  /\ parsed = NotParsed
  /\ _currentSource = 0
  /\ sources = <<>>

Init == \E d \in InitDraws : InitWith(d) /\ InitChatJs({<<>>})

Load(draws) == \E d \in draws : now <= MaxLoadTime /\ LoadVRM(d[1], d[2])

TickDrawing(draws, horizon, early) ==
  \E g \in Gaps, rnd \in draws :
    /\ now + g <= horizon
    /\ g < MaxDelta => shorts < early
    /\ isDragging => now + g - dragStartTime <= MaxHold
    /\ Animate(g, rnd)

Tick(horizon, early) == TickDrawing(FrameDraws, horizon, early)

Press == presses < MaxPresses /\ (presses = 0 => now <= MaxFirstPress) /\ MouseDown

\* The interactive specification: the load, the frame loop and the pointer.
Next ==
  \/ Load(LoadDraws)
  \/ LoadError
  \/ Tick(MaxTime, MaxShort)
  \/ Press
  \/ MouseUp

Spec == Init /\ [][Next]_vars

\* The pointer specification: as Spec, with its own budget of early
\* animate() calls.
NextClick ==
  \/ Load(ClickLoadDraws)
  \/ LoadError
  \/ Tick(MaxClickTime, MaxClickShort)
  \/ Press
  \/ MouseUp

SpecClick == Init /\ [][NextClick]_vars

\* The first animate() call after a suspension of the page
Resume(horizon) ==
  \E g \in SuspendGaps, rnd \in FrameDraws :
    /\ now + g <= horizon
    /\ ~isDragging
    /\ Animate(g, rnd)

\* The frame-loop specification: the load, the frame loop with early calls
\* and suspensions, and the pointer.
NextLoop ==
  \/ Load(ClickLoadDraws)
  \/ Tick(MaxLoopTime, MaxLoopShort)
  \/ Resume(MaxLoopTime)
  \/ Press
  \/ MouseUp

SpecLoop == Init /\ [][NextLoop]_vars

\* The idle specification: the load and the frame loop, no interaction.
NextIdle ==
  \/ Load(LoadDraws)
  \/ Tick(MaxIdleTime, MaxIdleShort)

SpecIdle == Init /\ [][NextIdle]_vars

\* Draws of the overlay specification: after a blink the next one comes
\* 0.15 s later (the double blink) or 4.5 s later.
OverlayDraws == [blink : {15, 450}, exprTime : {500}, exprPick : {0, 1}]

OverlayLoadDraws == {<<FullRig, 0>>, <<BlinkOnlyRig, 1>>}

\* The overlay specification: the idle specification with double blinks and
\* with a rig that exposes no candidate of the ambient expression.
NextOverlay ==
  \/ Load(OverlayLoadDraws)
  \/ TickDrawing(OverlayDraws, MaxOverlayTime, MaxOverlayShort)

SpecOverlay == Init /\ [][NextOverlay]_vars

\* Pointer positions (main.js:787-788): right edge at mid height, and left of
\* the centre at the top edge
MousePositions == {[x |-> 1000, y |-> 0], [x |-> -500, y |-> 1000]}

Move == \E m \in MousePositions : now <= MaxMoveTime /\ m # mouse /\ MouseMove(m)

\* The gaze specification: the pointer specification with pointer moves.
NextGaze ==
  \/ Load(ClickLoadDraws)
  \/ Tick(MaxGazeTime, MaxClickShort)
  \/ Move
  \/ Press
  \/ MouseUp

SpecGaze == Init /\ [][NextGaze]_vars

\* Indexes the do-while loop of triggerChatAnimation ends with
ChatDraws == {1, 2}

Send(draws, turns, latest) ==
  \E c \in draws : sends < turns /\ now <= latest /\ HandleSend(c)

\* The steps of sendMessage after a reply with one of the given labels
Pipeline(labels) ==
  \/ \E l \in labels : ChatReply(l)
  \/ ChatFail
  \/ TranslateOk
  \/ TranslateFail
  \/ SpeechDone
  \/ SpeechFail

\* Labels of the emotion specification: one per target of EMOTION_MAP and one
\* the map does not hold
EmotionLabels == {"annoyed", "concerned", "excited", "thoughtful", "confused"}

EmotionLoadDraws == {<<EmotionRig, 0>>, <<BareRig, 2>>}

\* The emotion specification: the load, the frame loop and dialogue turns
\* with every kind of label.
NextEmotion ==
  \/ Load(EmotionLoadDraws)
  \/ Tick(MaxEmotionTime, MaxClickShort)
  \/ Send(ChatDraws, MaxEmotionTurns, MaxEmotionTime)
  \/ Pipeline(EmotionLabels)

SpecEmotion == Init /\ [][NextEmotion]_vars

ChatLoadDraws == {<<FullRig, 0>>}

\* The shortest chat animation (2.5 s)
ShortChatDraws == {2}

\* The dialogue specification: the load, the frame loop, the pointer and a
\* dialogue turn sent early.
NextChat ==
  \/ Load(ChatLoadDraws)
  \/ Tick(MaxChatTime, MaxClickShort)
  \/ isSending /\ presses < MaxChatPresses /\ Press
  \/ MouseUp
  \/ Send(ShortChatDraws, MaxTurns, MaxSendTime)
  \/ Pipeline({"annoyed"})

SpecChat == Init /\ [][NextChat]_vars
\* The tokens replies are made of
ReplyTokens == {"<emotion>", "</emotion>", "happy", " ", "Hi.", "<|bot|>",
                "</response>"}

\* Every reply of at most MaxReplyLen tokens
Replies == UNION {[1 .. n -> ReplyTokens] : n \in 0 .. MaxReplyLen}

InitParse == \E d \in InitDraws : InitWith(d) /\ InitChatJs(Replies)

NextParse == ParseReply

\* The parser specification: chatWithSharon parses any reply.
SpecParse == InitParse /\ [][NextParse]_vars

\* The player specification: calls of playAudio and the events of the
\* sources it created, in any order.
NextAudio ==
  \/ playAudio
  \/ PlayAudioFails
  \/ \E i \in 1 .. Len(sources) : BufferEnds(i)
  \/ \E i \in 1 .. Len(sources) : onended(i)
  \/ \E i \in 1 .. Len(sources) : ResolveTimer(i)

SpecAudio == Init /\ [][NextAudio]_vars

\* The interruption specification: the load, the frame loop, one pointer
\* press and a dialogue turn sent at any time, a twirl included.
NextInterrupt ==
  \/ Load(ChatLoadDraws)
  \/ Tick(MaxInterruptTime, MaxClickShort)
  \/ presses < MaxChatPresses /\ Press
  \/ MouseUp
  \/ Send(ShortChatDraws, MaxTurns, MaxInterruptTime)
  \/ Pipeline({"annoyed"})

\* The corners of the pointer's range (main.js:786-789)
LookPositions == {[x |-> -1000, y |-> 1000], [x |-> 1000, y |-> -1000]}

LookMove ==
  \E m \in LookPositions : now <= MaxLookTime /\ m # mouse /\ MouseMove(m)

\* The smoothing specification: the load, the frame loop with early calls
\* and suspensions, and pointer moves between the corners at any time.
NextLook ==
  \/ Load(OverlayLoadDraws)
  \/ Tick(MaxLookTime, MaxLookShort)
  \/ Resume(MaxLookTime)
  \/ LookMove

SpecLook == Init /\ [][NextLook]_vars

SpecInterrupt == Init /\ [][NextInterrupt]_vars

\* The turn specification: the load, the frame loop and calls of handleSend
\* at any time, during a turn included.
NextTurns ==
  \/ Load(ChatLoadDraws)
  \/ Tick(MaxTurnTime, MaxClickShort)
  \/ Send(ChatDraws, MaxTurnSends, MaxTurnTime)
  \/ HandleSendInFlight
  \/ Pipeline({"annoyed"})

SpecTurns == Init /\ [][NextTurns]_vars

\* ---------------------------------------------------------------- claims
\* C1 (as stated in the specification): a release in the Idle state whose
\* press lasted less than 200 ms (20 cs) starts the spin; one whose press
\* lasted 200 ms or more never starts it.
C1_ClickBelow200msSpins ==
  [][(isDragging /\ ~isDragging' /\ animationState.state = IDLE)
       => IF now - dragStartTime < 20
          THEN animationState'.state = TWIRL
          ELSE animationState'.state # TWIRL]_vars

\* C1 (amended): a release in the Idle state starts the spin exactly when
\* the press lasted more than 100 ms (DragThreshold); the spin starts in
\* phase "twirl" with its timer and rotation at 0; a release after a press of
\* 100 ms or less leaves the state Idle.
C1_ReleaseAbove100msSpins ==
  [][(isDragging /\ ~isDragging' /\ animationState.state = IDLE)
       => IF now - dragStartTime > DragThreshold
          THEN /\ animationState'.state = TWIRL
               /\ animationState'.twirlPhase = "twirl"
               /\ animationState'.twirlTimer = 0
               /\ animationState'.twirlRotation = 0
          ELSE animationState'.state = IDLE]_vars

\* A release after a press of more than 100 ms has just started the spin.
C1_Witness ==
  /\ animationState.state = TWIRL
  /\ animationState.twirlPhase = "twirl"
  /\ animationState.twirlTimer = 0
  /\ animationState.wasDragged
  /\ ~isDragging
  /\ now - dragStartTime > DragThreshold

\* C2: a release that arrives while the state is TWIRL (any phase) leaves
\* the state, the phase, the phase timer and the spin rotation unchanged, and
\* queues nothing: a spin only ever (re)starts in the step of a release.
C2_TriggerIgnoredWhileTwirling ==
  [][/\ (isDragging /\ ~isDragging' /\ animationState.state = TWIRL)
          => /\ animationState'.state = TWIRL
             /\ animationState'.twirlPhase = animationState.twirlPhase
             /\ animationState'.twirlTimer = animationState.twirlTimer
             /\ animationState'.twirlRotation = animationState.twirlRotation
             /\ rig' = rig
     /\ (/\ animationState'.state = TWIRL
         /\ animationState'.twirlPhase = "twirl"
         /\ animationState'.twirlTimer = 0
         /\ \/ animationState.state # TWIRL
            \/ animationState.twirlPhase # "twirl"
            \/ animationState.twirlTimer # 0)
          => (isDragging /\ ~isDragging' /\ animationState.state # TWIRL)]_vars

\* A second press, begun after the spin phase had started and held for
\* more than 100 ms, has been released while the state was TWIRL, here in
\* the smile phase.
C2_Witness ==
  /\ presses = 2
  /\ ~isDragging
  /\ animationState.state = TWIRL
  /\ animationState.twirlPhase = "smile"
  /\ dragStartTime >= TwirlDuration
  /\ now - dragStartTime > DragThreshold
  /\ frame = "rendered"

\* C3: a triggered spin comes back to Idle.  In finite-run form: the return
\* phase never outlasts its duration, since the frame in which its timer
\* reaches the duration is the frame that hands over to Idle.
C3_ReturnPhaseEnds ==
  (animationState.state = TWIRL /\ animationState.twirlPhase = "return")
    => animationState.twirlTimer < ReturnDuration

\* C4: no per-frame update raises: no animate() call is left by an
\* exception.
C4_NoFrameThrows == frame # "threw"

\* C5: the frame in which the return phase completes (its timer reaches the
\* duration) leaves the state Idle with the idle timer at 0.
C5_IdleTimerZeroAfterReturn ==
  [][(/\ animationState.state = TWIRL
      /\ animationState.twirlPhase = "return"
      /\ animationState.twirlTimer < ReturnDuration
      /\ animationState'.twirlTimer >= ReturnDuration)
       => (animationState'.state = IDLE /\ animationState'.idleTimer = 0)]_vars

\* C6: once the return phase has run for its duration, the idle loop has
\* resumed at pose index 0.
C6_IdleResumesAtFirstPose ==
  (animationState.twirlPhase = "return"
     /\ animationState.twirlTimer >= ReturnDuration)
    => (animationState.state = IDLE /\ animationState.currentIdleIndex = 0)

\* C7 (as stated in the specification): with no interaction the pose index
\* sampled at t = k * 10 + 5 s is k modulo the pose count.
C7_IndexAtMidHold ==
  (loader = "loaded" /\ frame = "rendered" /\ now % IdleDuration = IdleDuration \div 2)
    => animationState.currentIdleIndex = (now \div IdleDuration) % NumIdle

\* C7 (amended): with no interaction, in every frame the pose index either
\* stays, and then the idle timer does not go back, or it advances to the
\* next index modulo the pose count, and then only in a frame in which the
\* accumulated idle time reached 10 s, with the timer restarting at 0; the
\* timer is below 10 s after every frame.
C7_SequentialCycling ==
  [][(now' # now)
       => /\ animationState'.idleTimer < IdleDuration
          /\ IF animationState'.currentIdleIndex = animationState.currentIdleIndex
             THEN animationState'.idleTimer >= animationState.idleTimer
             ELSE /\ animationState'.currentIdleIndex =
                       (animationState.currentIdleIndex + 1) % NumIdle
                  /\ animationState'.idleTimer = 0
                  /\ animationState.idleTimer + MaxDelta >= IdleDuration]_vars

\* The loop has wrapped around: 10 s after a load that drew the last pose,
\* the first pose is the current one and has been written to the rig.
C7_Witness ==
  /\ now >= IdleDuration
  /\ animationState.currentIdleIndex = 0
  /\ animationState.idleTimer < IdleDuration \div 10
  /\ rig.pose.idx = 0
  /\ rig.hips.by = "idle"

\* C8: in every idle frame the blend factor written with the pose is 0
\* while the pose progress is at most 0.75, never decreases while the pose
\* is held, and is 1 in the frame in which the hold ends.
C8_BlendZeroThenRising ==
  [][(/\ now' # now
      /\ frame' = "rendered"
      /\ vrm.loaded /\ vrm.bones # {}
      /\ animationState.state = IDLE)
       => IF animationState'.currentIdleIndex = animationState.currentIdleIndex
          THEN /\ animationState'.idleTimer * 4 <= IdleDuration * 3
                    => rig'.pose.blend = 0
               /\ rig.hips.by = "idle" => rig'.pose.blend >= rig.pose.blend
          ELSE rig'.pose.blend = BlendDen]_vars

\* C9: the ambient expression weight, in the state and as written to the
\* rig, is at most the ceiling at which fade-in switches to fade-out.
C9_WeightAtMostCeiling ==
  /\ animationState.expressionWeight <= ExpressionCeiling
  /\ \A e \in {"happy", "relaxed"} :
       rig.expr[e].by = "ambient" => rig.expr[e].val <= ExpressionCeiling

\* C10: an ambient expression trigger (the fade direction becomes fade-in, or
\* another expression becomes the active one) fires only in a state where
\* the fade direction is none, the slot is free, the weight is 0 and every
\* expression the ambient fade wrote last holds 0 on the rig.
C10_TriggerOnlyWhenFree ==
  [][(\/ animationState'.expressionFadeDir = 1 /\ animationState.expressionFadeDir # 1
      \/ animationState'.currentExpression \notin {"null", animationState.currentExpression})
       => /\ animationState.expressionFadeDir = 0
          /\ animationState.currentExpression = "null"
          /\ animationState.expressionWeight = 0
          /\ \A e \in {"happy", "relaxed"} :
               rig.expr[e].by = "ambient" => rig.expr[e].val = 0]_vars

\* A second trigger has fired: "relaxed" is fading in after "happy" has
\* faded out and was written 0.
C10_Witness ==
  /\ animationState.currentExpression = "relaxed"
  /\ animationState.expressionFadeDir = 1
  /\ animationState.expressionWeight > 0
  /\ rig.expr["happy"] = Written("ambient", 0)
  /\ rig.expr["relaxed"].by = "ambient"
\* C11: whenever the blink overlay wrote the eyelid weight last, the weight
\* on the rig is 2 * progress below progress 0.5, 2 * (1 - progress) from 0.5
\* to 1 and 0 from 1 on, and the blink is in progress exactly while the
\* progress is below 1; a blink in progress has always written its weight.
C11_BlinkWeightTriangle ==
  /\ rig.expr["blink"].by = "blink"
       => /\ rig.expr["blink"].val =
               (IF animationState.blinkProgress < 50
                THEN 2 * animationState.blinkProgress
                ELSE IF animationState.blinkProgress < 100
                     THEN 2 * (100 - animationState.blinkProgress)
                     ELSE 0)
          /\ animationState.isBlinking <=> animationState.blinkProgress < 100
  /\ animationState.isBlinking => animationState.blinkProgress < 100
  /\ (animationState.isBlinking /\ "blink" \in vrm.exprs)
       => rig.expr["blink"].by = "blink"

\* A blink past its peak: progress 0.8 with the weight 0.4 on the rig.
C11_Witness ==
  /\ animationState.isBlinking
  /\ animationState.blinkProgress = 80
  /\ rig.expr["blink"] = Written("blink", 40)
\* C18: a tick that arrives less than 1/30 s (10/3 cs) after the last
\* executed frame changes neither the animation state, the rig, the smoothed
\* gaze, the last-frame timestamp nor the clock; any other tick stamps the
\* frame, so two consecutive executed frames are at least 1/30 s apart.
C18_EarlyTickSkipsFrame ==
  [][(now' # now)
       => IF 3 * (now' - lastFrameTime) < 10
          THEN UNCHANGED <<animationState, rig, targetLook, lastFrameTime, clockOld>>
          ELSE /\ lastFrameTime' = now'
               /\ clockOld' = now'
               /\ 3 * (lastFrameTime' - lastFrameTime) >= 10]_vars

\* An early tick has been skipped after frames had been executed.
C18_Witness ==
  /\ frame = "skipped"
  /\ lastFrameTime > 0
  /\ now - lastFrameTime = 2
  /\ animationState.idleTimer > 0

\* C19: no executed frame advances a timer by more than 0.1 s (10 cs), nor a
\* phase, a progress or a weight by more than its rate times 0.1 s, however
\* long ago the previous executed frame was.
C19_DeltaClamped ==
  [][(now' # now)
       => /\ animationState'.idleTimer - animationState.idleTimer <= 10
          /\ animationState'.chatTimer - animationState.chatTimer <= 10
          /\ animationState'.twirlTimer - animationState.twirlTimer <= 10
          /\ animationState'.blinkTimer - animationState.blinkTimer <= 10
          /\ animationState'.expressionTimer - animationState.expressionTimer <= 10
          /\ animationState'.breathPhase - animationState.breathPhase <= 120
          /\ animationState'.bodySwayPhase - animationState.bodySwayPhase <= 150
          /\ animationState'.headSwayPhase - animationState.headSwayPhase <= 300
          /\ animationState'.blinkProgress - animationState.blinkProgress <= 80
          /\ animationState'.expressionWeight - animationState.expressionWeight <= 80]_vars

\* A frame has been executed 0.6 s after the previous one and has advanced
\* the idle timer by 0.1 s only: the timer, started by the frame at 0.06 s,
\* lags the wall clock by 0.56 s.
C19_Witness ==
  /\ frame = "rendered"
  /\ presses = 0
  /\ animationState.state = IDLE
  /\ animationState.idleTimer > 0
  /\ now - animationState.idleTimer = 56

\* C20: the frame that ends the spin (progress 1, phase becomes 'smile')
\* writes a hips yaw of exactly one full turn, and a frame of the return
\* phase at progress 1 (timer at or past 1.0 s) writes a hips yaw of 0.
C20_YawFullTurnThenZero ==
  [][(HasBone(vrm, "hips") /\ animationState.state = TWIRL)
     => /\ (animationState.twirlPhase = "twirl"
             /\ animationState'.twirlPhase = "smile")
            => rig'.hips.by = "twirl" /\ rig'.hips.spin = YawDen
        /\ (animationState'.twirlPhase = "return"
             /\ animationState'.twirlTimer # animationState.twirlTimer
             /\ animationState'.twirlTimer >= ReturnDuration)
            => rig'.hips.by = "return" /\ rig'.hips.spin = 0]_vars

\* The return phase has run for its full second after a spin that ended at
\* one full turn, and the hips are back at yaw 0.
C20_Witness ==
  /\ HasBone(vrm, "hips")
  /\ animationState.state = TWIRL
  /\ animationState.twirlPhase = "return"
  /\ animationState.twirlTimer = ReturnDuration
  /\ animationState.twirlRotation = YawDen
  /\ rig.hips.by = "return"
  /\ rig.hips.spin = 0

\* C12: the blink and ambient-expression overlays run in every executed
\* frame whichever base driver is active: in a frame with a positive delta
\* on a loaded rig the blink timer advances (or a blink starts), a blink in
\* progress progresses, and the ambient-expression timer advances (or an
\* expression starts to fade in), as in an idle frame.
C12_OverlaysRunInEveryFrame ==
  [][(vrm.loaded /\ clockOld # -1 /\ clockOld' > clockOld)
     => /\ \/ animationState'.blinkTimer > animationState.blinkTimer
           \/ ~animationState.isBlinking /\ animationState'.isBlinking
        /\ animationState.isBlinking
             => animationState'.blinkProgress > animationState.blinkProgress
        /\ \/ animationState'.expressionTimer > animationState.expressionTimer
           \/ /\ animationState.expressionFadeDir = 0
              /\ animationState'.expressionFadeDir = 1]_vars

\* C13: the gaze overlay is additive on top of the base driver's head
\* rotation: after every executed frame, in every state and phase, what the
\* head carries on top of the rotation its base driver wrote is the scaled
\* smoothed gaze offset of that frame, with nothing left of earlier frames.
C13_HeadIsBasePlusGaze ==
  (frame = "rendered" /\ vrm.lookAt /\ HasBone(vrm, "head"))
    => /\ rig.head.gazeY = targetLook.x * 20
       /\ rig.head.gazeX = -(targetLook.y * 15)

\* C14: setEmotion with a label that maps to a non-neutral expression sets
\* that expression to the fixed emotion weight (0.6) on a rig that exposes
\* it and, in the same call, sets a previously active different emotion
\* expression to 0.
C14_SetEmotionWritesWeight ==
  [][(turn'.emotionSet /\ ~turn.emotionSet
      /\ EMOTION_MAP(turn.label) # "neutral"
      /\ HasManager(vrm) /\ EMOTION_MAP(turn.label) \in vrm.exprs)
     => /\ rig'.expr[EMOTION_MAP(turn.label)] = Written("emotion", EmotionWeight)
        /\ \A e \in {"happy", "sad", "angry"} \ {EMOTION_MAP(turn.label)} :
             (e = currentEmotionExpression /\ e \in vrm.exprs)
               => rig'.expr[e] = Written("emotion", 0)]_vars

\* C15: after any sequence of emotion labels at most one of the emotion
\* expressions happy, sad and angry carries a non-zero weight set by the
\* emotion overlay, and none but the current emotion expression does.
C15_AtMostOneEmotionLit ==
  LET lit == {e \in {"happy", "sad", "angry"} :
                rig.expr[e].by = "emotion" /\ rig.expr[e].val # 0}
  IN /\ Cardinality(lit) <= 1
     /\ lit \subseteq {currentEmotionExpression}

\* Three turns have fed labels for angry, sad and happy, in this order: the
\* overlay has left angry and sad, and has set both to 0.
C15_Witness ==
  /\ sends = 3
  /\ turn.emotionSet
  /\ currentEmotionExpression = "happy"
  /\ rig.expr["angry"] = Written("emotion", 0)
  /\ rig.expr["sad"] = Written("emotion", 0)

\* C16 (as stated in the specification): when a dialogue turn fails in
\* translation or in speech synthesis, lip sync is never started during
\* that turn and setEmotion is not called for it.
C16_FailedTurnNoLipSyncNoEmotion ==
  turn.outcome \in {"translateFailed", "ttsFailed"}
    => ~turn.lipStarted /\ ~turn.emotionSet

\* C16 (amended): a turn that fails in translation never starts lip sync
\* and does call setEmotion with the reply's label; a turn that fails in
\* speech synthesis does not call setEmotion, and its lip sync, started when
\* 'speaking' was reported, is stopped as the turn ends.
C16_FailedTurnEffects ==
  /\ turn.outcome = "translateFailed"
       => /\ ~turn.lipStarted
          /\ turn.emotionSet
          /\ EMOTION_MAP(turn.label) # "neutral"
               => /\ currentEmotionExpression = EMOTION_MAP(turn.label)
                  /\ targetEmotionWeight = EmotionWeight
  /\ turn.outcome = "ttsFailed"
       => turn.lipStarted /\ turn.lipStopped /\ ~turn.emotionSet /\ ~isSending

\* A turn whose reply was 'annoyed' has failed in translation.
C16_Witness ==
  /\ turn.outcome = "translateFailed"
  /\ turn.label = "annoyed"
  /\ turn.emotionSet
  /\ ~turn.lipStarted
  /\ currentEmotionExpression = "angry"

\* C17 (as stated in the specification): in every state of an in-flight
\* dialogue turn the idle scheduler is advanced by every executed frame: on
\* a loaded rig the idle timer moves on, or the idle pose is switched.
C17_IdleAdvancedDuringTurn ==
  [][(isSending /\ vrm.loaded /\ lastFrameTime' # lastFrameTime /\ clockOld # -1)
     => \/ animationState'.idleTimer > animationState.idleTimer
        \/ /\ animationState'.idleTimer = 0
           /\ animationState'.currentIdleIndex # animationState.currentIdleIndex]_vars

\* C17 (amended): the frame loop never waits on the dialogue turn.  While a
\* sendMessage call is in flight, every frame executed on a loaded rig
\* advances, by the clamped delta of that frame, the timer of the
\* driver that is active: that of the chat gesture handleSend has started,
\* during which the idle timer stands still and at whose end it is set to 0;
\* the idle timer afterwards; the twirl timer during a twirl (set to 0 at a
\* change of phase).
C17_ActiveDriverAdvanced ==
  [][(isSending /\ vrm.loaded /\ lastFrameTime' # lastFrameTime)
     => LET d == FrameDelta(clockOld, now')
            s == animationState
            s1 == animationState'
        IN CASE s.state = CHAT ->
                  /\ s1.chatTimer = s.chatTimer + d
                  /\ s1.idleTimer =
                       IF s.chatTimer + d >= ChatDuration(s.currentChatIndex)
                       THEN 0 ELSE s.idleTimer
             [] s.state = IDLE ->
                  \/ s1.idleTimer = s.idleTimer + d
                  \/ s.idleTimer + d >= IdleDuration /\ s1.idleTimer = 0
             [] s.state = TWIRL ->
                  \/ s1.twirlTimer = s.twirlTimer + d
                  \/ s1.twirlPhase # s.twirlPhase /\ s1.twirlTimer = 0]_vars

\* The chat gesture has ended and idle frames have followed while the turn
\* is still in flight, waiting for the speech.
C17_Witness ==
  /\ isSending
  /\ turn.stage = "speech"
  /\ frame = "rendered"
  /\ animationState.state = IDLE
  /\ animationState.chatTimer >= ChatDuration(animationState.currentChatIndex)
  /\ animationState.idleTimer > 0

\* C21 (as stated in the specification): the spin is left in the first
\* frame in which its accumulated timer reaches 1.5 s, not earlier, and the
\* machine then enters the return (recovering) phase with the timer at 0.
C21_SpinEndsInRecovering ==
  [][(animationState.state = TWIRL /\ animationState.twirlPhase = "twirl"
      /\ vrm.loaded /\ lastFrameTime' # lastFrameTime)
     => IF animationState.twirlTimer + FrameDelta(clockOld, now') >= TwirlDuration
        THEN /\ animationState'.twirlPhase = "return"
             /\ animationState'.twirlTimer = 0
        ELSE animationState'.twirlPhase = "twirl"]_vars

\* C21 (amended): the spin is left in the first frame in which its
\* accumulated timer reaches 1.5 s, not earlier, and the machine then
\* enters the smile phase, still in state TWIRL, with the timer at 0.
C21_SpinEndsInSmile ==
  [][(animationState.state = TWIRL /\ animationState.twirlPhase = "twirl"
      /\ vrm.loaded /\ lastFrameTime' # lastFrameTime)
     => IF animationState.twirlTimer + FrameDelta(clockOld, now') >= TwirlDuration
        THEN /\ animationState'.state = TWIRL
             /\ animationState'.twirlPhase = "smile"
             /\ animationState'.twirlTimer = 0
        ELSE /\ animationState'.state = TWIRL
             /\ animationState'.twirlPhase = "twirl"
             /\ animationState'.twirlTimer =
                  animationState.twirlTimer + FrameDelta(clockOld, now')]_vars

\* The frame that ended the spin has just run: the smile phase starts at 0.
C21_Witness ==
  /\ animationState.state = TWIRL
  /\ animationState.twirlPhase = "smile"
  /\ animationState.twirlTimer = 0
  /\ animationState.twirlRotation = YawDen
  /\ frame = "rendered"

\* C22: the idle scheduler and the gesture drivers are mutually exclusive.
\* A frame executed in state IDLE has its bones written by the idle driver;
\* a frame executed in state CHAT has them written by the chat driver, and
\* one executed in state TWIRL leaves the blended pose and the idle sway as
\* they were; a frame that starts and ends in a non-idle state changes
\* neither the idle timer nor the idle index, and the frame that returns to
\* IDLE sets the idle timer to 0 and keeps the index.
C22_ExclusiveDrivers ==
  [][(vrm.loaded /\ lastFrameTime' # lastFrameTime)
     => LET s == animationState
            s1 == animationState'
            idleWrote == /\ \A b \in vrm.bones : rig'[b].by = "idle"
                         /\ vrm.bones # {} => rig'.pose.idx = s1.currentIdleIndex
        IN IF s.state = IDLE
           THEN idleWrote
           ELSE /\ s.state = CHAT => \A b \in vrm.bones : rig'[b].by = "chat"
                /\ s.state = TWIRL => /\ rig'.pose = rig.pose
                                      /\ \A b \in vrm.bones :
                                           rig'[b].by \in {rig[b].by, "twirl", "return"}
                /\ s1.bodySwayPhase = s.bodySwayPhase
                /\ s1.currentIdleIndex = s.currentIdleIndex
                /\ s1.idleTimer = IF s1.state = IDLE THEN 0 ELSE s.idleTimer]_vars

\* A frame of the chat gesture has run after the idle timer had started: the
\* chat driver has written the head and the idle timer is where it was.
C22_Witness ==
  /\ animationState.state = CHAT
  /\ animationState.chatTimer > 0
  /\ animationState.idleTimer > 0
  /\ frame = "rendered"
  /\ rig.head.by = "chat"
  /\ rig.pose.idx = animationState.currentChatIndex

\* C23: once setEmotion has been called with a label that maps to neutral
\* (a label of the table, or one the table does not hold), the emotion
\* weight the overlay aims at is 0 and no emotion expression carries a
\* non-zero weight written by the overlay.
C23_NeutralClearsEmotion ==
  (turn.emotionSet /\ EMOTION_MAP(turn.label) = "neutral")
    => /\ targetEmotionWeight = 0
       /\ \A e \in {"happy", "sad", "angry"} :
            rig.expr[e].by = "emotion" => rig.expr[e].val = 0

\* A turn with a label the table does not hold has followed a turn that
\* had made 'angry' the current emotion expression.
C23_Witness ==
  /\ turn.emotionSet
  /\ turn.label = "confused"
  /\ currentEmotionExpression = "angry"
  /\ targetEmotionWeight = 0
  /\ sends >= 2

\* C24: a blink starts only in an idle frame in which no blink is in
\* progress and the blink timer has reached nextBlinkTime.  Starting it
\* sets the progress to 0 (the same frame then makes its first step of
\* 8 * delta), sets the timer to 0 and redraws nextBlinkTime to 0.15 s or
\* to a value in [2, 7) s; in any other frame nextBlinkTime is kept, the
\* timer runs on and a blink in progress goes on from where it was.
C24_BlinkStartsWhenDue ==
  [][LET s == animationState
         s1 == animationState'
         d == FrameDelta(clockOld, now')
         idleFrame == /\ vrm.loaded
                      /\ lastFrameTime' # lastFrameTime
                      /\ s.state = IDLE
     IN /\ (~s.isBlinking /\ s1.isBlinking)
             => idleFrame /\ s.blinkTimer + d >= s.nextBlinkTime
        /\ idleFrame
             => IF ~s.isBlinking /\ s.blinkTimer + d >= s.nextBlinkTime
                THEN /\ s1.isBlinking
                     /\ s1.blinkProgress = 8 * d
                     /\ s1.blinkTimer = 0
                     /\ s1.nextBlinkTime \in {15} \cup (200 .. 699)
                ELSE /\ s1.nextBlinkTime = s.nextBlinkTime
                     /\ s1.blinkTimer = s.blinkTimer + d
                     /\ ~s.isBlinking => ~s1.isBlinking
                     /\ s.isBlinking
                          => s1.blinkProgress = s.blinkProgress + 8 * d]_vars

\* The second blink of a double blink has just started (the first one, due
\* at 2 s, started before 2.3 s): the timer is back at 0 and the next blink
\* is 4.5 s away.
C24_Witness ==
  /\ animationState.isBlinking
  /\ animationState.blinkTimer = 0
  /\ animationState.nextBlinkTime = 450
  /\ now >= 230
  /\ now < 300
  /\ frame = "rendered"

\* C25: the fade direction of the ambient expression only moves none (0)
\* -> fade-in (1) -> fade-out (-1) -> none; one expression name, a candidate
\* the rig exposes, is active while the direction is fade-in or fade-out,
\* none is active while it is none, and the name does not change from the
\* start of the fade-in to the end of the fade-out.
C25_FadeCycle ==
  [][LET s == animationState
         s1 == animationState'
     IN /\ <<s.expressionFadeDir, s1.expressionFadeDir>>
             \in {<<0, 0>>, <<0, 1>>, <<1, 1>>, <<1, -1>>, <<-1, -1>>, <<-1, 0>>}
        /\ IF s1.expressionFadeDir = 0
           THEN s1.currentExpression = "null"
           ELSE s1.currentExpression \in {"happy", "relaxed"} \cap vrm'.exprs
        /\ s.expressionFadeDir # 0 /\ s1.expressionFadeDir # 0
             => s1.currentExpression = s.currentExpression]_vars

\* An ambient expression has gone through its fade-in and its fade-out: the
\* direction is none again, no name is active and the rig holds the 0 of
\* the end of the fade.
C25_Witness ==
  /\ animationState.expressionFadeDir = 0
  /\ animationState.currentExpression = "null"
  /\ animationState.expressionTimer > 0
  /\ animationState.expressionTimer < 500
  /\ now > 500
  /\ rig.expr["relaxed"] = Written("ambient", 0)

\* C30 (as stated in the specification): when the ambient trigger fires in
\* an idle frame and the rig exposes no candidate expression, no expression
\* becomes active, the direction stays none, the weight stays 0, nothing is
\* written to the candidates, and the next attempt waits for a new
\* interval: after the frame the timer is below nextExpressionTime.
C30_SkippedTriggerWaitsForInterval ==
  [][(/\ vrm.loaded /\ lastFrameTime' # lastFrameTime
      /\ animationState.state = IDLE
      /\ animationState.expressionFadeDir = 0
      /\ animationState.expressionTimer + FrameDelta(clockOld, now')
           >= animationState.nextExpressionTime
      /\ Available(vrm) = <<>>)
     => /\ animationState'.currentExpression = "null"
        /\ animationState'.expressionFadeDir = 0
        /\ animationState'.expressionWeight = 0
        /\ rig'.expr["happy"] = rig.expr["happy"]
        /\ rig'.expr["relaxed"] = rig.expr["relaxed"]
        /\ animationState'.expressionTimer < animationState'.nextExpressionTime]_vars

\* C30 (amended): when the ambient trigger fires in an idle frame and the
\* rig exposes no candidate expression, no expression becomes active, the
\* direction stays none, the weight stays 0 and nothing is written to the
\* candidates; no new interval is drawn and the timer runs on, so that the
\* attempt is made again in the next idle frame.
C30_SkippedTriggerRetriesNextFrame ==
  [][(/\ vrm.loaded /\ lastFrameTime' # lastFrameTime
      /\ animationState.state = IDLE
      /\ animationState.expressionFadeDir = 0
      /\ animationState.expressionTimer + FrameDelta(clockOld, now')
           >= animationState.nextExpressionTime
      /\ Available(vrm) = <<>>)
     => /\ animationState'.currentExpression = "null"
        /\ animationState'.expressionFadeDir = 0
        /\ animationState'.expressionWeight = 0
        /\ rig'.expr["happy"] = rig.expr["happy"]
        /\ rig'.expr["relaxed"] = rig.expr["relaxed"]
        /\ animationState'.nextExpressionTime = animationState.nextExpressionTime
        /\ animationState'.expressionTimer =
             animationState.expressionTimer + FrameDelta(clockOld, now')
        /\ animationState'.expressionTimer >= animationState'.nextExpressionTime]_vars

\* On a rig that exposes 'blink' only, the trigger has fired in several
\* frames: the timer is a second past the interval and nothing is active.
C30_Witness ==
  /\ vrm = BlinkOnlyRig
  /\ frame = "rendered"
  /\ animationState.expressionTimer >= animationState.nextExpressionTime + 100
  /\ animationState.expressionFadeDir = 0
  /\ animationState.currentExpression = "null"
  /\ animationState.expressionWeight = 0

\* C26: every executed frame runs the base-pose update, then the gaze
\* overlay, then the lip-sync overlay, then the render, each once: the
\* frame ends rendered, and on a rig with lookAt its gaze has been smoothed
\* towards the pointer by that frame's delta, in every state and phase.
C26_FrameRunsEveryStep ==
  [][(lastFrameTime' # lastFrameTime)
     => /\ frame' = "rendered"
        /\ (vrm.loaded /\ vrm.lookAt)
             => LET d == FrameDelta(clockOld, now')
                IN /\ targetLook'.x = targetLook.x
                        + ((mouse.x * 15 - targetLook.x) * d * 3) \div 100
                   /\ targetLook'.y = targetLook.y
                        + ((mouse.y * 10 - targetLook.y) * d * 3) \div 100]_vars

\* The statuses of a complete successful call of sendMessage
FullStatuses == <<"thinking", "translating", "speaking", "idle">>

\* The statuses of a call whose translation failed
TranslateFailStatuses == <<"thinking", "translating", "idle">>

IsPrefix(s, t) == Len(s) <= Len(t) /\ s = SubSeq(t, 1, Len(s))

\* C27: the statuses a call of sendMessage has passed to onStatus are a
\* prefix of [thinking, translating, speaking, idle], or are
\* [thinking, translating, idle] when the translation failed; 'speaking' is
\* reported only after the translation succeeded, no status is reported
\* twice, and the sequence ends with 'idle' exactly when the call has returned
\* normally.
C27_StatusSequence ==
  LET st == turn.statuses
      returned == turn.stage = "done"
                    /\ turn.outcome \in {"spoken", "translateFailed"}
  IN /\ IsPrefix(st, FullStatuses) \/ st = TranslateFailStatuses
     /\ (st = TranslateFailStatuses) <=> (turn.outcome = "translateFailed")
     /\ (\E i \in 1..Len(st) : st[i] = "speaking")
          => (turn.stage = "speech" \/ turn.outcome \in {"spoken", "ttsFailed"})
     /\ \A i, j \in 1..Len(st) : st[i] = st[j] => i = j
     /\ (st # <<>> /\ st[Len(st)] = "idle") <=> returned
     /\ (turn.stage = "done" /\ ~returned)
          => st \in {<<"thinking">>, <<"thinking", "translating", "speaking">>}

\* The second call of a session had its translation fail: it has reported
\* thinking, translating, idle and returned
C27_Witness ==
  /\ turn.stage = "done"
  /\ turn.outcome = "translateFailed"
  /\ turn.statuses = TranslateFailStatuses
  /\ sends = 2

\* C29 (as stated in the specification): for a reply that begins with
\* <emotion>E</emotion> followed by text parseEmotionTag returns the emotion
\* E and the text without the tag, and for a reply without a leading emotion
\* tag it returns the emotion 'neutral'.
C29_LeadingTagIsParsed ==
  LET tagged == Len(reply) >= 3 /\ Head(reply) = "<emotion>"
                  /\ FirstIn(Tail(reply), {"</emotion>"}) > 0
      happy == Len(reply) >= 3
                 /\ SubSeq(reply, 1, 3) = <<"<emotion>", "happy", "</emotion>">>
  IN parsed.done =>
       /\ happy => /\ parsed.emotion = <<"happy">>
                   /\ parsed.text = <<>> \/ Head(parsed.text) # "<emotion>"
       /\ ~tagged => parsed.emotion = <<"neutral">>

\* Sources that are audible
Playing == {i \in 1 .. Len(sources) : sources[i] = "playing"}

\* C28 (as stated in the specification): at most one audio source is playing
\* at any time, whatever the order of the playAudio calls and the onended
\* callbacks: a call of playAudio leaves no source playing but the one it
\* started.
C28_OneSourcePlaying == Cardinality(Playing) <= 1

\* C31 (as stated in the specification): once the interaction state is
\* TWIRL nothing but the completion of the return phase changes
\* animationState.state; a chat message sent during a twirl does not cut the
\* twirl short.
C31_OnlyReturnEndsTwirl ==
  [][(animationState.state = TWIRL /\ animationState'.state # TWIRL)
     => /\ animationState.twirlPhase = "return"
        /\ lastFrameTime' # lastFrameTime
        /\ animationState'.state = IDLE]_vars

\* C32: in every executed frame of the chat gesture the chat timer advances
\* by the frame's delta, and the state returns to IDLE, with the idle timer
\* reset to 0, in the first frame in which the timer reaches the duration of
\* the selected chat animation; handleSend starts the gesture with the timer
\* at 0.
C32_ChatEndsAtDuration ==
  [][/\ (vrm.loaded /\ animationState.state = CHAT
           /\ lastFrameTime' # lastFrameTime)
          => LET t == animationState.chatTimer + FrameDelta(clockOld, now')
                 duration == ChatDuration(animationState.currentChatIndex)
             IN /\ animationState.chatTimer < duration
                /\ animationState'.chatTimer = t
                /\ IF t >= duration
                     THEN /\ animationState'.state = IDLE
                          /\ animationState'.idleTimer = 0
                     ELSE /\ animationState'.state = CHAT
                          /\ animationState'.idleTimer = animationState.idleTimer
     /\ (isSending' /\ ~isSending)
          => /\ animationState'.state = CHAT
             /\ animationState'.chatTimer = 0]_vars

\* The frame that ended the chat gesture: the timer has reached the duration,
\* the state is IDLE again and the idle timer, which had run before the
\* message was sent, is back at 0
C32_Witness ==
  /\ sends = 1
  /\ frame = "rendered"
  /\ animationState.state = IDLE
  /\ animationState.chatTimer >= ChatDuration(animationState.currentChatIndex)
  /\ animationState.idleTimer = 0
  /\ rig.head.by = "chat"

\* C33: lip sync is active only while a dialogue turn is in flight and
\* speaking; when a turn has ended, by success or by any failure, its
\* in-flight flag is cleared only after stopLipSync has been called, so every
\* startLipSync of the turn has been followed by a stopLipSync and lip sync
\* is not active.
C33_LipSyncStoppedByTurnEnd ==
  /\ lipSyncActive => (isSending /\ turn.stage = "speech" /\ turn.lipStarted)
  /\ turn.stage = "done"
       => /\ ~isSending
          /\ turn.lipStopped
          /\ ~lipSyncActive
  /\ (turn.lipStarted /\ ~isSending) => turn.lipStopped
  /\ turn.lipStarted
       => (turn.stage = "speech" \/ turn.outcome \in {"spoken", "ttsFailed"})

\* A turn whose speech failed after lip sync had been started has ended:
\* lip sync has been stopped and the in-flight flag is cleared
C33_Witness ==
  /\ turn.outcome = "ttsFailed"
  /\ turn.lipStarted
  /\ turn.lipStopped
  /\ ~lipSyncActive
  /\ ~isSending
  /\ sends >= 1

\* C34: at most one dialogue turn is in flight.  A turn is started only
\* while none is in flight; handleSend called while one is in flight changes
\* nothing (no chat animation trigger, no request, no status); and the
\* in-flight flag is set exactly while the turn has not ended: it is cleared
\* by the step that ends the turn, whether sendMessage resolved or rejected.
C34_OneTurnInFlight ==
  [][/\ sends' # sends => (~isSending /\ isSending' /\ sends' = sends + 1)
     /\ turn'.ignored > turn.ignored
          => /\ isSending
             /\ UNCHANGED <<animationState, sends, isSending, rig, lipSyncActive,
                            currentEmotionExpression, targetEmotionWeight>>
             /\ turn' = [turn EXCEPT !.ignored = turn'.ignored]
     /\ isSending' <=> turn'.stage \in {"chat", "translate", "speech"}
     /\ (turn.stage # "done" /\ turn'.stage = "done")
          => (isSending /\ ~isSending'
                /\ turn'.outcome \in {"spoken", "translateFailed",
                                      "chatFailed", "ttsFailed"})]_vars

\* The second turn, during which handleSend was called again, has ended by
\* a rejection: two requests were made in all and the flag is cleared
C34_Witness ==
  /\ turn.ignored = 1
  /\ turn.stage = "done"
  /\ turn.outcome = "chatFailed"
  /\ sends = 2
  /\ ~isSending

Abs(n) == IF n < 0 THEN -n ELSE n

\* C35: the delta of a frame is at most 0.1 s, and a frame that renders on a
\* rig with lookAt moves each smoothed gaze value towards its target by the
\* fraction 3 * delta, at most 0.3, of the remaining distance, never past
\* the target; no other step changes the smoothed values.  With the pointer
\* in [-1, 1] the smoothed yaw stays in [-15, 15] degrees and the smoothed
\* pitch in [-10, 10] degrees.
C35_GazeNeverOvershoots ==
  [][LET d == FrameDelta(clockOld, now')
         gx == mouse.x * 15 - targetLook.x
         gy == mouse.y * 10 - targetLook.y
         dx == targetLook'.x - targetLook.x
         dy == targetLook'.y - targetLook.y
     IN /\ Abs(targetLook'.x) <= 15000
        /\ Abs(targetLook'.y) <= 10000
        /\ IF lastFrameTime' # lastFrameTime /\ frame' = "rendered"
                /\ vrm.loaded /\ vrm.lookAt
             THEN /\ d >= 0 /\ d <= MaxDelta
                  /\ dx = (gx * d * 3) \div 100
                  /\ dy = (gy * d * 3) \div 100
                  /\ dx * gx >= 0 /\ Abs(dx) <= Abs(gx)
                  /\ dy * gy >= 0 /\ Abs(dy) <= Abs(gy)
                  /\ 100 * Abs(dx) <= 30 * Abs(gx) + 99
                  /\ 100 * Abs(dy) <= 30 * Abs(gy) + 99
             ELSE dx = 0 /\ dy = 0]_vars

\* A frame has just rendered with the smoothed gaze on its way to the corner
\* the pointer is in, nine tenths of the way and more in yaw and in pitch
C35_Witness ==
  /\ vrm.lookAt
  /\ frame = "rendered"
  /\ mouse = [x |-> 1000, y |-> -1000]
  /\ now - lastFrameTime = 0
  /\ targetLook.x > 13500
  /\ targetLook.x < 15000
  /\ targetLook.y < -9000

====
